---- MODULE Spec2Model ----
(***************************************************************************)
(* MT4 statement analytics: the metrics calculator, the R-Multiple         *)
(* analyzers, the numeric text normalizer and the statement parser of the  *)
(* repository, as state machines over bounded inputs.                      *)
(*                                                                         *)
(* Numbers.  A Python float is modelled as an integer count of the         *)
(* smallest unit, rounded after every addition and subtraction to          *)
(* Precision significant bits (round half to even), which is what IEEE     *)
(* arithmetic does with 53 bits.  A quotient is kept as an exact fraction  *)
(* [n, d]; +infinity is the fraction 1/0.                                  *)
(*                                                                         *)
(* Text.  A Python str is a sequence of one-character strings.             *)
(***************************************************************************)
EXTENDS Integers, Sequences, FiniteSets, TLC

VARIABLES
    pc,                     \* which operation has run, and which implementation
    closed_trades,          \* data.closed_trades: the closed-trade ledger
    performance_metrics,    \* data.performance_metrics (None when not given)
    calculated_metrics,     \* data.calculated_metrics
    calculator_cache,       \* CalculationFactory._calculator_cache: the cached types
    r_multiple_data,        \* the R-Multiple records the analyzer returned
    r_multiple_statistics,  \* the RMultipleStatistics the analyzer returned
    text,                   \* the argument of a text function
    parsed,                 \* the value a text function returned
    soup,                   \* the HTML document: its rows in document order
    statement               \* the sub-objects the section parsers returned

vars == <<pc, closed_trades, performance_metrics, calculated_metrics, calculator_cache,
          r_multiple_data, r_multiple_statistics, text, parsed, soup, statement>>

-----------------------------------------------------------------------------
(* Bounds of the model *)

Precision == 3      \* significant bits of a modelled float
MaxTrades == 3      \* longest ledger of the profit and distribution families
MaxRTrades == 2     \* longest ledger of the stop-loss family

-----------------------------------------------------------------------------
(* Float arithmetic *)

Abs(x) == IF x < 0 THEN -x ELSE x

RECURSIVE Pow2(_)
Pow2(n) == IF n = 0 THEN 1 ELSE 2 * Pow2(n - 1)

\* The spacing of the floats around magnitude a: the least power of two q
\* with a < 2^Precision * q.
RECURSIVE Ulp(_, _)
Ulp(a, q) == IF a < Pow2(Precision) * q THEN q ELSE Ulp(a, 2 * q)

\* x rounded to the nearest float, ties to the even mantissa.
Fl(x) ==
    LET a  == Abs(x)
        q  == Ulp(a, 1)
        lo == (a \div q) * q
        r  == a - lo
        up == IF 2 * r > q \/ (2 * r = q /\ (lo \div q) % 2 = 1)
              THEN lo + q ELSE lo
    IN  IF x < 0 THEN -up ELSE up

FAdd(a, b) == Fl(a + b)
FSub(a, b) == Fl(a - b)

\* Fractions: the value of a / b.  d = 0 stands for +infinity.
Frac(n, d) == [n |-> n, d |-> d]
Zero == Frac(0, 1)
Inf == Frac(1, 0)
IsInf(q) == q.d = 0
FracEq(a, b) == IF IsInf(a) \/ IsInf(b) THEN IsInf(a) /\ IsInf(b)
                ELSE IF a.d = b.d THEN a.n = b.n
                ELSE a.n * b.d = b.n * a.d
FracPos(a) == IsInf(a) \/ a.n > 0
\* Arithmetic and order of quotients with denominators >= 0.
FracAdd(a, b) == Frac(a.n * b.d + b.n * a.d, a.d * b.d)
FracSub(a, b) == Frac(a.n * b.d - b.n * a.d, a.d * b.d)
FracMul(a, b) == Frac(a.n * b.n, a.d * b.d)
FracLess(a, b) == a.n * b.d < b.n * a.d
FracMin(a, b) == IF FracLess(b, a) THEN b ELSE a
FracIsZero(a) == ~IsInf(a) /\ a.n = 0

RECURSIVE SumSeq(_)
SumSeq(s) == IF s = <<>> THEN 0 ELSE FAdd(SumSeq(SubSeq(s, 1, Len(s) - 1)), s[Len(s)])

\* The sequences over S of length 0..n.
SeqsUpTo(S, n) == UNION {[1..k -> S] : k \in 0..n}

-----------------------------------------------------------------------------
(* The trade ledger *)

\* TradeData: the fields the calculators read.
\* The ticket is the row's position in the ledger; 0 until the row is placed.
Trade(type, price, s_l, t_p, close_price, profit) ==
    [ticket |-> 0, type |-> type, price |-> price, s_l |-> s_l, t_p |-> t_p,
     close_time |-> IF close_price = 0 THEN "" ELSE "2024.01.02 10:00",
     close_price |-> close_price, profit |-> profit]

is_closed_trade(trade) == trade.close_time # "" /\ trade.close_price # 0

\* Profit family: well-formed closed buys that differ in the reported profit.
ProfitValues == {-6, -2, 0, 6, 7}
ProfitTrades == {Trade("buy", 4, 3, 0, 5, p) : p \in ProfitValues}

\* Stop-loss family: the stop is missing (0), below, at or above the entry,
\* for both directions and both signs of the reported profit; and one row
\* whose close price did not parse.
StopValues == {0, 3, 4, 5}
StopTrades ==
    {Trade(ty, 4, sl, 0, 5, p) : ty \in {"buy", "sell"}, sl \in StopValues, p \in {-1, 1}}
    \cup {Trade("buy", 4, 3, 0, 0, 1)}

\* Take-profit family: valid stops of risk 1 with the take-profit below or
\* above the entry, for both directions.
TakeProfitValues == {2, 6}
TakeProfitTrades ==
    {Trade("buy", 4, 3, tp, 5, 1) : tp \in TakeProfitValues}
    \cup {Trade("sell", 4, 5, tp, 5, -1) : tp \in TakeProfitValues}

\* Distribution family: valid buys of risk 1 whose R is -3 .. 2.
CloseValues == {1, 2, 3, 4, 5, 6}
DistributionTrades == {Trade("buy", 4, 3, 0, c, 1) : c \in CloseValues}

Numbered(rows) == [i \in 1..Len(rows) |-> [rows[i] EXCEPT !.ticket = i]]

ProfitLedgers == {Numbered(rows) : rows \in SeqsUpTo(ProfitTrades, MaxTrades)}
Ledgers ==
    ProfitLedgers
    \cup {Numbered(rows) : rows \in SeqsUpTo(DistributionTrades, MaxTrades)
                                    \cup SeqsUpTo(StopTrades, MaxRTrades)
                                    \cup SeqsUpTo(TakeProfitTrades, MaxRTrades)}

\* PerformanceMetrics: the field the calculators divide by; None is the
\* performance_metrics a caller of BasicCalculator left out of the data.
PerformanceMetrics(maximal_drawdown_amount) ==
    [present |-> TRUE, maximal_drawdown_amount |-> maximal_drawdown_amount]
NoPerformance == [present |-> FALSE, maximal_drawdown_amount |-> 0]
DrawdownValues == {0, 2, 4}
PerformanceInputs == {NoPerformance} \cup {PerformanceMetrics(d) : d \in DrawdownValues}
\* The parsed statements: every ledger under a drawdown of 4, and the profit
\* family under every performance input.
ParsedInputs ==
    (Ledgers \X {PerformanceMetrics(4)}) \cup (ProfitLedgers \X PerformanceInputs)

-----------------------------------------------------------------------------
(* The metrics calculator *)

\* CalculatedMetrics(): the dataclass defaults.
DefaultMetrics ==
    [gross_profit |-> 0, gross_loss |-> 0, total_net_profit |-> 0,
     profit_factor |-> Zero, expected_payoff |-> Zero, win_rate |-> Zero,
     risk_reward_ratio |-> Zero, kelly_percentage |-> Zero,
     recovery_factor |-> Zero, expectancy |-> Zero, average_trade_profit |-> Zero,
     average_trade_loss |-> Zero, win_loss_ratio |-> Zero]

\* Accumulators that go on from the sums of the metrics object the last call
\* left behind.
Accumulators_KeptBetweenCalls ==
    [total_profit_sum |-> calculated_metrics.total_net_profit,
     gross_profit_sum |-> calculated_metrics.gross_profit,
     gross_loss_sum |-> calculated_metrics.gross_loss,
     winning_trades |-> <<>>, losing_trades |-> <<>>]

\* The accumulators as every call initialises them: locals of the function.
Accumulators ==
    [total_profit_sum |-> 0, gross_profit_sum |-> 0, gross_loss_sum |-> 0,
     winning_trades |-> <<>>, losing_trades |-> <<>>]

\* The accumulators of the single pass over the ledger.
RECURSIVE SinglePass(_)
SinglePass(trades) ==
    IF trades = <<>>
    THEN Accumulators
    ELSE LET acc == SinglePass(SubSeq(trades, 1, Len(trades) - 1))
             profit == trades[Len(trades)].profit
         IN  [total_profit_sum |-> FAdd(acc.total_profit_sum, profit),
              gross_profit_sum |-> IF profit > 0 THEN FAdd(acc.gross_profit_sum, profit)
                                   ELSE acc.gross_profit_sum,
              gross_loss_sum |-> IF profit < 0 THEN FAdd(acc.gross_loss_sum, Abs(profit))
                                 ELSE acc.gross_loss_sum,
              winning_trades |-> IF profit > 0 THEN Append(acc.winning_trades, profit)
                                 ELSE acc.winning_trades,
              losing_trades |-> IF profit < 0 THEN Append(acc.losing_trades, Abs(profit))
                                ELSE acc.losing_trades]

\* The rule without the zero case: infinite whenever there is no loss.
ProfitFactor_InfiniteWithoutLoss(gross_profit, gross_loss) ==
    IF gross_loss > 0 THEN Frac(gross_profit, gross_loss) ELSE Inf

\* profit_factor = gross_profit / gross_loss if gross_loss > 0
\*                 else (inf if gross_profit > 0 else 0.0)
ProfitFactor(gross_profit, gross_loss) ==
    IF gross_loss > 0 THEN Frac(gross_profit, gross_loss)
    ELSE IF gross_profit > 0 THEN Inf ELSE Zero

\* The quotient of the averages with no test of the divisor: a division by
\* zero shows as a fraction of denominator 0.
RiskRewardRatio_Unguarded(avg_win, avg_loss) ==
    Frac(avg_win.n * avg_loss.d, avg_win.d * avg_loss.n)

\* risk_reward_ratio = avg_win / avg_loss if avg_loss > 0 else 0.0
RiskRewardRatio(avg_win, avg_loss) ==
    IF FracPos(avg_loss) THEN Frac(avg_win.n * avg_loss.d, avg_win.d * avg_loss.n)
    ELSE Zero

\* The statistics both calculators derive from the accumulators
\* (_calculate_trade_statistics_single_pass and
\* _calculate_optimized_trade_statistics have the same body).
StatisticsAfterPass(acc, total_trades) ==
    LET win_count == Len(acc.winning_trades)
        loss_count == Len(acc.losing_trades)
        avg_win == IF win_count > 0 THEN Frac(SumSeq(acc.winning_trades), win_count) ELSE Zero
        avg_loss == IF loss_count > 0 THEN Frac(SumSeq(acc.losing_trades), loss_count) ELSE Zero
    IN  [gross_profit |-> acc.gross_profit_sum,
         gross_loss |-> acc.gross_loss_sum,
         total_net_profit |-> acc.total_profit_sum,
         profit_factor |-> ProfitFactor(acc.gross_profit_sum, acc.gross_loss_sum),
         expected_payoff |-> IF total_trades > 0
                             THEN Frac(acc.total_profit_sum, total_trades) ELSE Zero,
         win_rate |-> IF total_trades > 0 THEN Frac(win_count * 100, total_trades) ELSE Zero,
         win_loss_ratio |-> IF loss_count > 0 THEN Frac(win_count, loss_count) ELSE Zero,
         risk_reward_ratio |-> RiskRewardRatio(avg_win, avg_loss),
         average_win |-> avg_win,
         average_loss |-> avg_loss,
         expectancy |-> IF total_trades > 0
                        THEN FracSub(FracMul(Frac(win_count * 100, 100 * total_trades), avg_win),
                                     FracMul(Frac(loss_count, total_trades), avg_loss))
                        ELSE Zero,
         total_trades |-> total_trades,
         win_count |-> win_count,
         loss_count |-> loss_count]

TradeStatistics(trades) == StatisticsAfterPass(SinglePass(trades), Len(trades))

\* _calculate_kelly_percentage: max(0, (W - (1 - W) / R) * 100) for
\* W = win_rate / 100, and 0 when R <= 0, win_rate <= 0 or win_rate >= 100.
calculate_kelly_percentage(win_rate, risk_reward_ratio) ==
    IF risk_reward_ratio.n <= 0 \/ win_rate.n <= 0 \/ win_rate.n >= 100 * win_rate.d
    THEN Zero
    ELSE LET kelly == Frac(win_rate.n * risk_reward_ratio.n
                              - (100 * win_rate.d - win_rate.n) * risk_reward_ratio.d,
                           win_rate.d * risk_reward_ratio.n)
         IN  IF kelly.n > 0 THEN kelly ELSE Zero

\* The CalculatedMetrics fields both calculators copy from the statistics;
\* the recovery factor is the caller's.
MetricsOf(stats) ==
    [gross_profit |-> stats.gross_profit, gross_loss |-> stats.gross_loss,
     total_net_profit |-> stats.total_net_profit,
     profit_factor |-> stats.profit_factor,
     expected_payoff |-> stats.expected_payoff, win_rate |-> stats.win_rate,
     risk_reward_ratio |-> stats.risk_reward_ratio,
     kelly_percentage |-> calculate_kelly_percentage(stats.win_rate,
                                                     stats.risk_reward_ratio),
     recovery_factor |-> Zero,
     expectancy |-> stats.expectancy,
     average_trade_profit |-> stats.average_win,
     average_trade_loss |-> stats.average_loss,
     win_loss_ratio |-> stats.win_loss_ratio]

\* MT4Processor._get_empty_trade_stats
get_empty_trade_stats ==
    [gross_profit |-> 0, gross_loss |-> 0, total_net_profit |-> 0,
     profit_factor |-> Zero, expected_payoff |-> Zero, win_rate |-> Zero,
     win_loss_ratio |-> Zero,
     risk_reward_ratio |-> Zero, average_win |-> Zero, average_loss |-> Zero,
     expectancy |-> Zero,
     total_trades |-> 0, win_count |-> 0, loss_count |-> 0]

\* MT4Processor._calculate_optimized_trade_statistics
calculate_optimized_trade_statistics(trades) ==
    IF trades = <<>> THEN get_empty_trade_stats ELSE TradeStatistics(trades)

\* MT4Processor._calculate_recovery_factor_optimized
calculate_recovery_factor_optimized(performance, total_net_profit) ==
    IF performance.maximal_drawdown_amount <= 0 THEN Zero
    ELSE Frac(total_net_profit, performance.maximal_drawdown_amount)

\* MT4Processor._calculate_additional_metrics; performance is the object the
\* performance parser returned.
WithRecoveryFactor(calculated, performance) ==
    [calculated EXCEPT !.recovery_factor =
        calculate_recovery_factor_optimized(performance, calculated.total_net_profit)]

calculate_additional_metrics(trades, performance) ==
    WithRecoveryFactor(MetricsOf(calculate_optimized_trade_statistics(trades)), performance)

\* BasicCalculator.calculate with _apply_risk_metrics_formulas: the recovery
\* factor is assigned only for a performance object with a drawdown > 0.
apply_risk_metrics_formulas(metrics, performance) ==
    IF performance.present /\ performance.maximal_drawdown_amount > 0
    THEN [metrics EXCEPT !.recovery_factor =
             Frac(metrics.total_net_profit, performance.maximal_drawdown_amount)]
    ELSE metrics

BasicCalculator_calculate(trades, performance) ==
    IF trades = <<>> THEN DefaultMetrics
    ELSE apply_risk_metrics_formulas(MetricsOf(TradeStatistics(trades)), performance)

-----------------------------------------------------------------------------
(* R-Multiple records *)

\* RMultipleData(ticket=..., actual_profit=trade.profit): the record before
\* any calculation.
RMultipleData(trade) ==
    [ticket |-> trade.ticket, type |-> trade.type,
     entry_price |-> trade.price, exit_price |-> trade.close_price,
     stop_loss |-> trade.s_l, take_profit |-> trade.t_p,
     actual_profit |-> trade.profit, initial_risk |-> 0,
     r_multiple |-> Zero, is_profitable |-> FALSE, is_valid_r_trade |-> FALSE,
     risk_reward_ratio |-> Zero]

\* RMultipleData._validate_trade_data
RMultipleData_validate_trade_data(r) ==
    /\ r.entry_price > 0 /\ r.exit_price > 0 /\ r.stop_loss > 0
    /\ r.type \in {"buy", "sell"}

\* The assignments RMultipleData.calculate_r_multiple and
\* MT4CalculatorService._calculate_single_r_multiple make once the stop is
\* accepted.
WithRMultiple(r, valid) ==
    LET initial_risk == IF r.type = "buy" THEN FSub(r.entry_price, r.stop_loss)
                        ELSE FSub(r.stop_loss, r.entry_price)
        actual_profit == IF r.type = "buy" THEN FSub(r.exit_price, r.entry_price)
                         ELSE FSub(r.entry_price, r.exit_price)
        potential_reward == IF r.type = "buy" THEN FSub(r.take_profit, r.entry_price)
                            ELSE FSub(r.entry_price, r.take_profit)
    IN  [r EXCEPT !.initial_risk = initial_risk,
                  !.actual_profit = actual_profit,
                  !.r_multiple = IF initial_risk > 0
                                 THEN Frac(actual_profit, initial_risk) ELSE Zero,
                  !.is_profitable = actual_profit > 0,
                  !.is_valid_r_trade = valid,
                  !.risk_reward_ratio = IF r.take_profit > 0 /\ initial_risk > 0
                                        THEN Frac(potential_reward, initial_risk)
                                        ELSE Zero]

\* RMultipleData.calculate_r_multiple: the record after the call.
calculate_r_multiple(r) ==
    IF ~RMultipleData_validate_trade_data(r) THEN r
    ELSE IF r.type = "buy" /\ r.stop_loss >= r.entry_price THEN r
    ELSE IF r.type = "sell" /\ r.stop_loss <= r.entry_price THEN r
    ELSE LET initial_risk == IF r.type = "buy" THEN FSub(r.entry_price, r.stop_loss)
                             ELSE FSub(r.stop_loss, r.entry_price)
             actual_profit == IF r.type = "buy" THEN FSub(r.exit_price, r.entry_price)
                              ELSE FSub(r.entry_price, r.exit_price)
         IN  IF initial_risk > 0 THEN WithRMultiple(r, TRUE)
             ELSE [r EXCEPT !.initial_risk = initial_risk,
                            !.actual_profit = actual_profit]

\* MT4CalculatorService._calculate_single_r_multiple
calculate_single_r_multiple(trade) ==
    LET r_trade == RMultipleData(trade)
    IN  IF trade.type = "buy" /\ trade.s_l >= trade.price THEN r_trade
        ELSE IF trade.type = "sell" /\ trade.s_l <= trade.price THEN r_trade
        ELSE IF trade.type \notin {"buy", "sell"} THEN r_trade
        ELSE WithRMultiple(r_trade, TRUE)

\* UltraFastTradeData._calculate_r_multiple: Optional[float] as a sequence
\* of at most one value.
UltraFast_calculate_r_multiple(trade) ==
    IF ~is_closed_trade(trade) \/ trade.s_l <= 0 THEN <<>>
    ELSE IF trade.type \notin {"buy", "sell"} THEN <<>>
    ELSE LET initial_risk == IF trade.type = "buy" THEN FSub(trade.price, trade.s_l)
                             ELSE FSub(trade.s_l, trade.price)
         IN  IF initial_risk > 0 THEN <<Frac(trade.profit, initial_risk)>> ELSE <<>>

\* UltraFastTradeData after __post_init__, in the field names of an R record.
UltraFastTradeData(trade) ==
    LET r == UltraFast_calculate_r_multiple(trade)
    IN  [RMultipleData(trade) EXCEPT
            !.r_multiple = IF r = <<>> THEN Zero ELSE r[1],
            !.is_profitable = trade.profit > 0,
            !.is_valid_r_trade = r # <<>>]

-----------------------------------------------------------------------------
(* Validation of trades and records: RMultipleValidator *)

validate_trade_data_for_r_multiple(trade) ==
    /\ is_closed_trade(trade)
    /\ trade.price > 0
    /\ trade.close_price > 0
    /\ trade.s_l > 0
    /\ trade.type \in {"buy", "sell"}
    /\ ~(trade.s_l > 0 /\ trade.price > 0 /\ trade.type = "buy" /\ trade.s_l >= trade.price)
    /\ ~(trade.s_l > 0 /\ trade.price > 0 /\ trade.type = "sell" /\ trade.s_l <= trade.price)
    /\ ~(trade.t_p > 0 /\ trade.type = "buy" /\ trade.t_p <= trade.price)
    /\ ~(trade.t_p > 0 /\ trade.type = "sell" /\ trade.t_p >= trade.price)

calculate_expected_r_multiple(r) ==
    IF r.type = "buy" /\ r.stop_loss >= r.entry_price THEN Zero
    ELSE IF r.type = "sell" /\ r.stop_loss <= r.entry_price THEN Zero
    ELSE IF r.type \notin {"buy", "sell"} THEN Zero
    ELSE LET initial_risk == IF r.type = "buy" THEN FSub(r.entry_price, r.stop_loss)
                             ELSE FSub(r.stop_loss, r.entry_price)
             actual_profit == IF r.type = "buy" THEN FSub(r.exit_price, r.entry_price)
                              ELSE FSub(r.entry_price, r.exit_price)
         IN  IF initial_risk > 0 THEN Frac(actual_profit, initial_risk) ELSE Zero

\* abs(a - b) <= 0.001 for finite fractions.
WithinTolerance(a, b) == Abs(a.n * b.d - b.n * a.d) * 1000 <= a.d * b.d

calculate_expected_risk_reward_ratio(r) ==
    IF r.take_profit <= 0 THEN Zero
    ELSE IF r.type = "buy" /\ r.stop_loss >= r.entry_price THEN Zero
    ELSE IF r.type = "sell" /\ r.stop_loss <= r.entry_price THEN Zero
    ELSE IF r.type \notin {"buy", "sell"} THEN Zero
    ELSE LET risk == IF r.type = "buy" THEN FSub(r.entry_price, r.stop_loss)
                     ELSE FSub(r.stop_loss, r.entry_price)
             reward == IF r.type = "buy" THEN FSub(r.take_profit, r.entry_price)
                       ELSE FSub(r.entry_price, r.take_profit)
         IN  IF risk > 0 THEN Frac(reward, risk) ELSE Zero

validate_r_multiple_calculation(r) ==
    /\ r.ticket # 0
    /\ r.type # ""
    /\ r.is_valid_r_trade
    /\ WithinTolerance(r.r_multiple, calculate_expected_r_multiple(r))
    /\ (r.take_profit > 0 /\ FracPos(r.risk_reward_ratio))
          => WithinTolerance(r.risk_reward_ratio, calculate_expected_risk_reward_ratio(r))

-----------------------------------------------------------------------------
(* R-Multiple statistics *)

Buckets == {"below_-2r", "-2r_to_-1r", "-1r_to_0r", "0r_to_+1r", "+1r_to_+2r", "above_+2r"}

\* r < k for a finite fraction r and an integer k.
LtInt(r, k) == r.n < k * r.d
GeInt(r, k) == r.n >= k * r.d

\* The bucket the if / elif chain of the distribution loop increments.
BucketOf(r_value) ==
    IF LtInt(r_value, -2) THEN "below_-2r"
    ELSE IF GeInt(r_value, -2) /\ LtInt(r_value, -1) THEN "-2r_to_-1r"
    ELSE IF GeInt(r_value, -1) /\ LtInt(r_value, 0) THEN "-1r_to_0r"
    ELSE IF GeInt(r_value, 0) /\ LtInt(r_value, 1) THEN "0r_to_+1r"
    ELSE IF GeInt(r_value, 1) /\ LtInt(r_value, 2) THEN "+1r_to_+2r"
    ELSE "above_+2r"

\* Six independent tests with closed intervals: a boundary value is counted
\* twice.
BucketsHit_ClosedIntervals(r_value) ==
    {b \in Buckets :
        \/ b = "below_-2r" /\ LtInt(r_value, -2)
        \/ b = "-2r_to_-1r" /\ GeInt(r_value, -2) /\ r_value.n <= -1 * r_value.d
        \/ b = "-1r_to_0r" /\ GeInt(r_value, -1) /\ r_value.n <= 0
        \/ b = "0r_to_+1r" /\ GeInt(r_value, 0) /\ r_value.n <= r_value.d
        \/ b = "+1r_to_+2r" /\ GeInt(r_value, 1) /\ r_value.n <= 2 * r_value.d
        \/ b = "above_+2r" /\ GeInt(r_value, 2)}

\* The buckets one pass of the loop body increments for r_value.
BucketsHit(r_value) == {BucketOf(r_value)}

EmptyDistribution == [b \in Buckets |-> 0]

RECURSIVE calculate_r_distribution(_)
calculate_r_distribution(r_values) ==
    IF r_values = <<>> THEN EmptyDistribution
    ELSE LET d == calculate_r_distribution(SubSeq(r_values, 1, Len(r_values) - 1))
             hit == BucketsHit(r_values[Len(r_values)])
         IN  [b \in Buckets |-> IF b \in hit THEN d[b] + 1 ELSE d[b]]

\* math.sqrt(v), kept by its radicand.
Root(v) == [radicand |-> v]

\* A Sortino ratio: float('inf'), or mean / math.sqrt(downside_variance).
SortinoRatio(mean, downside_variance) ==
    [inf |-> FALSE, mean |-> mean, downside_variance |-> downside_variance]
InfiniteSortino == [inf |-> TRUE, mean |-> Zero, downside_variance |-> Frac(1, 1)]

\* RMultipleStatistics(): the dataclass defaults.
RMultipleStatistics ==
    [total_valid_r_trades |-> 0, r_win_rate |-> Zero,
     average_r_multiple |-> Zero, average_winning_r |-> Zero, average_losing_r |-> Zero,
     r_distribution |-> EmptyDistribution,
     r_expectancy |-> Zero,
     r_sortino_ratio |-> SortinoRatio(Zero, Frac(1, 1)),
     max_r_drawdown |-> Zero,
     max_consecutive_r_wins |-> 0, max_consecutive_r_losses |-> 0,
     r_volatility |-> Root(Zero),
     r_recovery_factor |-> Zero]

RValues(r_trades) == [i \in 1..Len(r_trades) |-> r_trades[i].r_multiple]

IsValidRTrade(r) == r.is_valid_r_trade
IsWinningR(r) == r.r_multiple.n > 0
IsProfitable(r) == r.is_profitable
IsNotProfitable(r) == ~r.is_profitable
IsPositive(r_value) == r_value.n > 0
IsNegative(r_value) == r_value.n < 0

RECURSIVE GCD(_, _)
GCD(m, n) == IF n = 0 THEN m ELSE GCD(n, m % n)

\* The same quotient in lowest terms.
Lowest(a, g) == Frac(a.n \div g, a.d \div g)
Reduced(a) == IF a.d = 0 \/ a.n = 0 THEN a ELSE Lowest(a, GCD(Abs(a.n), a.d))

FracMax(a, b) == IF FracLess(a, b) THEN b ELSE a
FracSquare(a) == Reduced(FracMul(a, a))

RECURSIVE FracSum(_)
FracSum(s) == IF s = <<>> THEN Zero
              ELSE Reduced(FracAdd(FracSum(SubSeq(s, 1, Len(s) - 1)), s[Len(s)]))

RECURSIVE MaxOf(_)
MaxOf(s) == IF Len(s) = 1 THEN s[1]
            ELSE LET m == MaxOf(SubSeq(s, 1, Len(s) - 1))
                 IN  IF s[Len(s)] > m THEN s[Len(s)] ELSE m

RECURSIVE FracMinOf(_)
FracMinOf(s) == IF Len(s) = 1 THEN s[1]
                ELSE FracMin(FracMinOf(SubSeq(s, 1, Len(s) - 1)), s[Len(s)])

\* total / count
Over(total, count) == Reduced(Frac(total.n, total.d * count))

\* statistics.mean(values) if values else 0.0
MeanOrZero(values) == IF values = <<>> THEN Zero ELSE Over(FracSum(values), Len(values))

\* The squares of the distances of the values from c.
SquaresAround(values, c) == [i \in 1..Len(values) |-> FracSquare(FracSub(values[i], c))]

\* statistics.stdev(values) ** 2 for two values or more: the sample variance.
SampleVariance(values) ==
    Over(FracSum(SquaresAround(values, MeanOrZero(values))), Len(values) - 1)

\* RMultipleCalculator._calculate_r_sortino_ratio
calculate_r_sortino_ratio(r_values) ==
    IF Len(r_values) < 2 THEN SortinoRatio(Zero, Frac(1, 1))
    ELSE IF SelectSeq(r_values, IsNegative) = <<>> THEN InfiniteSortino
    ELSE SortinoRatio(MeanOrZero(r_values),
                      MeanOrZero(SquaresAround(SelectSeq(r_values, IsNegative), Zero)))

\* The locals of the single pass of _calculate_r_statistics before the loop.
RAccumulators ==
    [cumulative_r |-> Zero, peak_cumulative_r |-> Zero, max_drawdown_r |-> Zero,
     current_win_streak |-> 0, current_loss_streak |-> 0,
     win_streaks |-> <<>>, loss_streaks |-> <<>>]

\* streaks.append(current) if current > 0
Closed(streaks, current) == IF current > 0 THEN Append(streaks, current) ELSE streaks

\* The drawdown tracking of one pass of the loop body, given the new
\* cumulative R and the new peak.
TrackDrawdown(acc, cumulative_r, peak_cumulative_r) ==
    [acc EXCEPT !.cumulative_r = cumulative_r,
                !.peak_cumulative_r = peak_cumulative_r,
                !.max_drawdown_r = FracMax(acc.max_drawdown_r,
                                           FracSub(peak_cumulative_r, cumulative_r))]

\* Streak tracking in which a breakeven trade leaves both streaks open.
TrackStreaks_BreakevenIgnored(acc, r_value) ==
    IF r_value.n > 0
    THEN [acc EXCEPT !.loss_streaks = Closed(acc.loss_streaks, acc.current_loss_streak),
                     !.current_loss_streak = 0,
                     !.current_win_streak = acc.current_win_streak + 1]
    ELSE IF r_value.n < 0
    THEN [acc EXCEPT !.win_streaks = Closed(acc.win_streaks, acc.current_win_streak),
                     !.current_win_streak = 0,
                     !.current_loss_streak = acc.current_loss_streak + 1]
    ELSE acc

\* The streak tracking of one pass of the loop body: a win closes the loss
\* streak, a loss closes the win streak, a breakeven closes both.
TrackStreaks(acc, r_value) ==
    IF r_value.n > 0
    THEN [acc EXCEPT !.loss_streaks = Closed(acc.loss_streaks, acc.current_loss_streak),
                     !.current_loss_streak = 0,
                     !.current_win_streak = acc.current_win_streak + 1]
    ELSE IF r_value.n < 0
    THEN [acc EXCEPT !.win_streaks = Closed(acc.win_streaks, acc.current_win_streak),
                     !.current_win_streak = 0,
                     !.current_loss_streak = acc.current_loss_streak + 1]
    ELSE [acc EXCEPT !.win_streaks = Closed(acc.win_streaks, acc.current_win_streak),
                     !.current_win_streak = 0,
                     !.loss_streaks = Closed(acc.loss_streaks, acc.current_loss_streak),
                     !.current_loss_streak = 0]

RLoopBody(acc, r_value, cumulative_r) ==
    TrackStreaks(TrackDrawdown(acc, cumulative_r,
                               FracMax(acc.peak_cumulative_r, cumulative_r)),
                 r_value)

\* The loop over the valid trades in order, then the final streaks.
RECURSIVE RLoop(_)
RLoop(r_values) ==
    IF r_values = <<>> THEN RAccumulators
    ELSE RLoopBody(RLoop(SubSeq(r_values, 1, Len(r_values) - 1)),
                   r_values[Len(r_values)],
                   FracSum(r_values))

FinalStreaks(acc) ==
    [acc EXCEPT !.win_streaks = Closed(acc.win_streaks, acc.current_win_streak),
                !.loss_streaks = Closed(acc.loss_streaks, acc.current_loss_streak)]

\* An expectancy that takes the win rate in percent for a probability.
RExpectancy_OfPercent(r_win_rate, average_winning_r, average_losing_r) ==
    Reduced(FracAdd(FracMul(r_win_rate, average_winning_r),
                    FracMul(FracSub(Frac(1, 1), r_win_rate), average_losing_r)))

\* win_rate_decimal * average_winning_r + loss_rate_decimal * average_losing_r
RExpectancy(r_win_rate, average_winning_r, average_losing_r) ==
    Reduced(FracAdd(FracMul(Over(r_win_rate, 100), average_winning_r),
                    FracMul(FracSub(Frac(1, 1), Over(r_win_rate, 100)),
                            average_losing_r)))

\* win_rate_decimal * average_winning_r - loss_rate_decimal * abs(average_losing_r)
RExpectancyOfAbs(r_win_rate, average_winning_r, average_losing_r) ==
    Reduced(FracSub(FracMul(Over(r_win_rate, 100), average_winning_r),
                    FracMul(FracSub(Frac(1, 1), Over(r_win_rate, 100)),
                            Frac(Abs(average_losing_r.n), average_losing_r.d))))

\* The statistics every implementation fills in the same way, from the list
\* of all R values and the lists it took for winners and losers.
BasicRStatistics(r_values, winning_r_values, losing_r_values) ==
    [RMultipleStatistics EXCEPT
        !.total_valid_r_trades = Len(r_values),
        !.r_win_rate = Frac(Len(winning_r_values) * 100, Len(r_values)),
        !.average_r_multiple = MeanOrZero(r_values),
        !.average_winning_r = MeanOrZero(winning_r_values),
        !.average_losing_r = MeanOrZero(losing_r_values),
        !.r_distribution = calculate_r_distribution(r_values),
        !.r_volatility = IF Len(r_values) > 1 THEN Root(SampleVariance(r_values))
                         ELSE Root(Zero)]

\* The part of calculators.RMultipleCalculator._calculate_r_statistics after
\* the loop and the basic statistics.
RStatisticsAfterLoop(stats, r_values, acc) ==
    [stats EXCEPT
        !.r_expectancy = RExpectancy(stats.r_win_rate, stats.average_winning_r,
                                     stats.average_losing_r),
        !.r_sortino_ratio = IF Len(r_values) > 1 THEN calculate_r_sortino_ratio(r_values)
                            ELSE stats.r_sortino_ratio,
        !.max_r_drawdown = acc.max_drawdown_r,
        !.r_recovery_factor = IF FracPos(acc.max_drawdown_r)
                              THEN Frac(acc.cumulative_r.n * acc.max_drawdown_r.d,
                                        acc.cumulative_r.d * acc.max_drawdown_r.n)
                              ELSE stats.r_recovery_factor,
        !.max_consecutive_r_wins = IF acc.win_streaks # <<>> THEN MaxOf(acc.win_streaks)
                                   ELSE 0,
        !.max_consecutive_r_losses = IF acc.loss_streaks # <<>> THEN MaxOf(acc.loss_streaks)
                                     ELSE 0]

\* calculators.RMultipleCalculator._calculate_r_statistics: winners are the
\* records with r_multiple > 0, losers those with r_multiple < 0.
StatisticsOfRValues(r_values) ==
    RStatisticsAfterLoop(BasicRStatistics(r_values, SelectSeq(r_values, IsPositive),
                                          SelectSeq(r_values, IsNegative)),
                         r_values, FinalStreaks(RLoop(r_values)))

calculate_r_statistics(valid_r_trades) ==
    IF valid_r_trades = <<>> THEN RMultipleStatistics
    ELSE StatisticsOfRValues(RValues(valid_r_trades))

WithExpectancyOfAbs(stats) ==
    [stats EXCEPT !.r_expectancy = RExpectancyOfAbs(stats.r_win_rate, stats.average_winning_r,
                                                    stats.average_losing_r)]

\* calculations.RMultipleCalculator._calculate_r_statistics: the basic
\* statistics, the distribution, the expectancy and the volatility.
Calculations_calculate_r_statistics(valid_r_trades) ==
    IF valid_r_trades = <<>> THEN RMultipleStatistics
    ELSE WithExpectancyOfAbs(
            BasicRStatistics(RValues(valid_r_trades),
                             SelectSeq(RValues(valid_r_trades), IsPositive),
                             SelectSeq(RValues(valid_r_trades), IsNegative)))

\* MT4CalculatorService._calculate_r_statistics: winners are the profitable
\* records, losers all the others.
calculate_r_statistics_by_profit(valid_r_trades) ==
    IF valid_r_trades = <<>> THEN RMultipleStatistics
    ELSE WithExpectancyOfAbs(
            BasicRStatistics(RValues(valid_r_trades),
                             RValues(SelectSeq(valid_r_trades, IsProfitable)),
                             RValues(SelectSeq(valid_r_trades, IsNotProfitable))))

\* The R block of calculate_all_metrics_ultra_fast after the basic
\* statistics: the Sortino ratio is set only for two values or more with a
\* loser among them; the drawdown is the least R value.
UltraFastRBlock(stats, r_values, losing_r) ==
    [stats EXCEPT
        !.r_expectancy = RExpectancy(stats.r_win_rate, stats.average_winning_r,
                                     stats.average_losing_r),
        !.r_sortino_ratio = IF Len(r_values) > 1 /\ losing_r # <<>>
                            THEN SortinoRatio(stats.average_r_multiple,
                                              MeanOrZero(SquaresAround(losing_r, Zero)))
                            ELSE stats.r_sortino_ratio,
        !.max_r_drawdown = FracMinOf(r_values),
        !.r_recovery_factor = IF FracMinOf(r_values).n < 0
                              THEN Frac(stats.average_r_multiple.n * FracMinOf(r_values).d,
                                        stats.average_r_multiple.d * Abs(FracMinOf(r_values).n))
                              ELSE Zero]

UltraFast_r_statistics(valid_r_trades) ==
    IF valid_r_trades = <<>> THEN RMultipleStatistics
    ELSE UltraFastRBlock(
            BasicRStatistics(RValues(valid_r_trades),
                             RValues(SelectSeq(valid_r_trades, IsProfitable)),
                             RValues(SelectSeq(valid_r_trades, IsNotProfitable))),
            RValues(valid_r_trades),
            RValues(SelectSeq(valid_r_trades, IsNotProfitable)))

\* abs(a - b) <= tolerance for finite quotients.
Within(a, b, tolerance) ==
    ~FracLess(tolerance, Frac(Abs(a.n * b.d - b.n * a.d), a.d * b.d))

RECURSIVE SumOfCounts(_, _)
SumOfCounts(distribution, buckets) ==
    IF buckets = {} THEN 0
    ELSE LET b == CHOOSE x \in buckets : TRUE
         IN  distribution[b] + SumOfCounts(distribution, buckets \ {b})

\* (r_win_rate / 100 * average_winning_r)
\*     + ((100 - r_win_rate) / 100 * average_losing_r)
expected_expectancy(statistics) ==
    Reduced(FracAdd(FracMul(Over(statistics.r_win_rate, 100), statistics.average_winning_r),
                    FracMul(Over(FracSub(Frac(100, 1), statistics.r_win_rate), 100),
                            statistics.average_losing_r)))

\* The issues of RMultipleValidator.validate_statistics_calculation for a
\* non-empty list of valid records.
StatisticsIssues(valid_trades, statistics) ==
    {issue \in {"Win rate mismatch", "Average R-Multiple mismatch",
                "Distribution total mismatch", "R Expectancy mismatch"} :
        \/ /\ issue = "Win rate mismatch"
           /\ ~Within(statistics.r_win_rate,
                      Frac(Len(SelectSeq(valid_trades, IsWinningR)) * 100, Len(valid_trades)),
                      Frac(1, 10))
        \/ /\ issue = "Average R-Multiple mismatch"
           /\ ~Within(statistics.average_r_multiple,
                      Over(FracSum(RValues(valid_trades)), Len(valid_trades)),
                      Frac(1, 1000))
        \/ /\ issue = "Distribution total mismatch"
           /\ SumOfCounts(statistics.r_distribution, Buckets) # statistics.total_valid_r_trades
        \/ /\ issue = "R Expectancy mismatch"
           /\ ~Within(statistics.r_expectancy, expected_expectancy(statistics), Frac(1, 1000))}

\* RMultipleValidator.validate_statistics_calculation: the list of issues.
validate_statistics_calculation(trades, statistics) ==
    IF trades = <<>> THEN {}
    ELSE (IF Len(SelectSeq(trades, IsValidRTrade)) # statistics.total_valid_r_trades
          THEN {"Trade count mismatch"} ELSE {})
         \cup (IF SelectSeq(trades, IsValidRTrade) = <<>> THEN {}
               ELSE StatisticsIssues(SelectSeq(trades, IsValidRTrade), statistics))

-----------------------------------------------------------------------------
(* The analyzers *)

MapSeq(Op(_), s) == [i \in 1..Len(s) |-> Op(s[i])]

\* calculators.RMultipleCalculator._convert_trades_to_r_format
ConvertibleTrade(trade) ==
    is_closed_trade(trade) /\ validate_trade_data_for_r_multiple(trade)

convert_trades_to_r_format_validated(trades) ==
    MapSeq(RMultipleData, SelectSeq(trades, ConvertibleTrade))

\* calculators.RMultipleCalculator._calculate_and_validate_r_multiples
AcceptedRecord(r) == validate_r_multiple_calculation(r) /\ r.is_valid_r_trade

calculate_and_validate_r_multiples(r_trades) ==
    SelectSeq(MapSeq(calculate_r_multiple, r_trades), AcceptedRecord)

\* An analysis that keeps every closed trade's record, whatever its stop.
comprehensive_r_analysis_without_validation(trades) ==
    LET r_trades == MapSeq(calculate_single_r_multiple, SelectSeq(trades, is_closed_trade))
    IN  [r_multiple_data |-> r_trades,
         statistics |-> calculate_r_statistics(r_trades)]

\* calculators.RMultipleCalculator.calculate_comprehensive_r_analysis
calculate_comprehensive_r_analysis(trades) ==
    LET valid_r_trades ==
            calculate_and_validate_r_multiples(convert_trades_to_r_format_validated(trades))
    IN  [r_multiple_data |-> valid_r_trades,
         statistics |-> calculate_r_statistics(valid_r_trades)]

\* calculations.RMultipleCalculator._convert_trades_to_r_format
convert_trades_to_r_format(trades) ==
    MapSeq(RMultipleData, SelectSeq(trades, is_closed_trade))

\* calculations.RMultipleCalculator._calculate_r_multiples
calculate_r_multiples(r_trades) ==
    SelectSeq(MapSeq(calculate_r_multiple, r_trades), IsValidRTrade)

\* calculations.RMultipleCalculator.calculate
RMultipleCalculator_calculate(trades) ==
    IF trades = <<>>
    THEN [r_multiple_data |-> <<>>, statistics |-> RMultipleStatistics]
    ELSE LET valid_r_trades == calculate_r_multiples(convert_trades_to_r_format(trades))
         IN  [r_multiple_data |-> valid_r_trades,
              statistics |-> Calculations_calculate_r_statistics(valid_r_trades)]

\* MT4CalculatorService.calculate_r_multiple_analysis: every record is
\* returned, the statistics are those of the records marked valid.
calculate_r_multiple_analysis(trades) ==
    LET r_trades == MapSeq(calculate_single_r_multiple, SelectSeq(trades, is_closed_trade))
    IN  [r_multiple_data |-> r_trades,
         statistics |-> calculate_r_statistics_by_profit(SelectSeq(r_trades, IsValidRTrade))]

\* metrics.recovery_factor = abs(total_profit) / 100.0 if total_profit != 0
\* else 0.0
ultra_fast_recovery_factor(metrics) ==
    [metrics EXCEPT !.recovery_factor =
        IF metrics.total_net_profit # 0
        THEN Frac(Abs(metrics.total_net_profit), 100) ELSE Zero]

\* UltraFastMT4Calculator.calculate_all_metrics_ultra_fast: the financial
\* block is the same single pass over the closed trades; the R block runs over
\* the closed trades whose r_multiple is not None.
calculate_all_metrics_ultra_fast(trades) ==
    LET closed == SelectSeq(trades, is_closed_trade)
        valid_r_trades == SelectSeq(MapSeq(UltraFastTradeData, closed), IsValidRTrade)
    IN  [metrics |-> IF closed = <<>> THEN DefaultMetrics
                     ELSE ultra_fast_recovery_factor(MetricsOf(TradeStatistics(closed))),
         r_multiple_data |-> valid_r_trades,
         statistics |-> UltraFast_r_statistics(valid_r_trades)]

\* MT4CalculatorService._calculate_kelly_criterion(win_rate / 100, b): 0 for
\* b <= 0, else max(0, min(kelly * 100, 100)) for kelly = (b * p - q) / b.  For
\* an infinite b the quotient is NaN, min(NaN, 100) is NaN and max(0, NaN) is 0.
calculate_kelly_criterion(win_rate, risk_reward_ratio) ==
    IF IsInf(risk_reward_ratio) THEN Zero
    ELSE IF risk_reward_ratio.n <= 0 THEN Zero
    ELSE LET kelly == Frac(win_rate.n * risk_reward_ratio.n
                              - (100 * win_rate.d - win_rate.n) * risk_reward_ratio.d,
                           win_rate.d * risk_reward_ratio.n)
         IN  IF kelly.n <= 0 THEN Zero
             ELSE IF kelly.n > 100 * kelly.d THEN Frac(100, 1)
             ELSE kelly

\* The loop of MT4CalculatorService._calculate_drawdown_metrics over the
\* trades in close-time order.
RECURSIVE DrawdownPass(_)
DrawdownPass(trades) ==
    IF trades = <<>> THEN [cumulative |-> 0, peak |-> 0, max_drawdown |-> 0]
    ELSE LET before == DrawdownPass(SubSeq(trades, 1, Len(trades) - 1))
             cumulative == FAdd(before.cumulative, trades[Len(trades)].profit)
             peak == IF cumulative > before.peak THEN cumulative ELSE before.peak
             drawdown == FSub(peak, cumulative)
         IN  [cumulative |-> cumulative, peak |-> peak,
              max_drawdown |-> IF drawdown > before.max_drawdown THEN drawdown
                               ELSE before.max_drawdown]

IsWinningProfit(profit) == profit > 0
IsLosingProfit(profit) == profit < 0

\* MT4CalculatorService.calculate_all_metrics.  The ledgers of the model
\* carry one close time, so the stable sort by close time keeps their order.
calculate_all_metrics(trades) ==
    IF trades = <<>> THEN DefaultMetrics
    ELSE LET closed == SelectSeq(trades, is_closed_trade)
             profits == [i \in 1..Len(closed) |-> closed[i].profit]
             gross_profit == SumSeq(SelectSeq(profits, IsWinningProfit))
             gross_loss == Abs(SumSeq(SelectSeq(profits, IsLosingProfit)))
             total_net_profit == SumSeq(profits)
             profitable_trades == Len(SelectSeq(profits, IsWinningProfit))
             losing_trades == Len(SelectSeq(profits, IsLosingProfit))
             win_rate == IF closed # <<>> THEN Frac(profitable_trades * 100, Len(closed))
                         ELSE Zero
             avg_win == IF profitable_trades > 0 THEN Frac(gross_profit, profitable_trades)
                        ELSE Zero
             avg_loss == IF losing_trades > 0 THEN Frac(gross_loss, losing_trades) ELSE Zero
             risk_reward_ratio ==
                 IF FracPos(avg_loss)
                 THEN Frac(Abs(avg_win.n * avg_loss.d), Abs(avg_win.d * avg_loss.n))
                 ELSE Inf
             max_drawdown == DrawdownPass(closed).max_drawdown
         IN  [gross_profit |-> gross_profit, gross_loss |-> gross_loss,
              total_net_profit |-> total_net_profit,
              profit_factor |-> IF gross_loss > 0 THEN Frac(gross_profit, gross_loss)
                                ELSE Inf,
              expected_payoff |-> IF closed # <<>> THEN Frac(total_net_profit, Len(closed))
                                  ELSE Zero,
              win_rate |-> win_rate,
              risk_reward_ratio |-> risk_reward_ratio,
              kelly_percentage |-> calculate_kelly_criterion(win_rate, risk_reward_ratio),
              recovery_factor |-> IF closed = <<>> THEN Zero
                                  ELSE IF max_drawdown > 0
                                  THEN Frac(gross_profit, max_drawdown) ELSE Inf,
              expectancy |-> FracSub(FracMul(Frac(win_rate.n, 100 * win_rate.d), avg_win),
                                     FracMul(Frac(100 * win_rate.d - win_rate.n,
                                                  100 * win_rate.d), avg_loss)),
              average_trade_profit |-> avg_win,
              average_trade_loss |-> avg_loss,
              win_loss_ratio |-> IF FracPos(avg_loss)
                                 THEN Frac(avg_win.n * avg_loss.d, avg_win.d * avg_loss.n)
                                 ELSE Inf]

\* CalculationFactory.create_calculator: the cache after the call.  The
\* registry holds the four built-in types; the instance of a type is made
\* once and kept.
calculator_registry == {"basic", "r_multiple", "advanced", "rating"}
CalculationFactory_create_calculator(calculator_type, cache) ==
    IF calculator_type \in cache THEN cache ELSE cache \cup {calculator_type}

-----------------------------------------------------------------------------
(* Scores and ratings of the calculated metrics *)

Points(n) == Frac(n, 1)
Times(a, k) == Frac(a.n * k, a.d)
Reaches(score, n) == ~FracLess(score, Points(n))

\* CalculatedMetrics.get_performance_score
get_performance_score(metrics) ==
    FracAdd(FracAdd(FracMin(metrics.win_rate, Points(50)),
                    FracMin(Times(metrics.profit_factor, 10), Points(20))),
            FracMin(Times(metrics.expectancy, 5), Points(30)))

\* CalculatedMetrics.get_risk_adjusted_score
get_risk_adjusted_score(metrics) ==
    IF FracPos(metrics.recovery_factor)
    THEN FracMin(Times(metrics.recovery_factor, 10), Points(100))
    ELSE Zero

\* The label of the two scores.
RatingOfScores(score, recovery) ==
    IF Reaches(score, 70) /\ Reaches(recovery, 70) THEN "EXCELLENT"
    ELSE IF Reaches(score, 60) /\ Reaches(recovery, 60) THEN "VERY GOOD"
    ELSE IF Reaches(score, 50) /\ Reaches(recovery, 50) THEN "GOOD"
    ELSE IF Reaches(score, 40) /\ Reaches(recovery, 40) THEN "FAIR"
    ELSE "NEEDS IMPROVEMENT"

\* A rating that reads the performance score alone.
get_comprehensive_rating_by_score(metrics) ==
    RatingOfScores(get_performance_score(metrics), Points(100))

\* CalculatedMetrics.get_comprehensive_rating
get_comprehensive_rating(metrics) ==
    RatingOfScores(get_performance_score(metrics), get_risk_adjusted_score(metrics))

\* RatingCalculator._calculate_performance_score
calculate_performance_score(metrics) ==
    FracAdd(FracAdd(FracMin(metrics.win_rate, Points(50)),
                    IF FracPos(metrics.profit_factor)
                    THEN FracMin(Times(metrics.profit_factor, 10), Points(20)) ELSE Zero),
            IF FracPos(metrics.expectancy)
            THEN FracMin(Times(metrics.expectancy, 5), Points(30)) ELSE Zero)

\* RatingCalculator._calculate_risk_adjusted_score
calculate_risk_adjusted_score(metrics) ==
    IF ~FracPos(metrics.recovery_factor) THEN Zero
    ELSE FracMin(Times(metrics.recovery_factor, 10), Points(100))

\* The points RMultipleStatistics.get_r_performance_rating and
\* RatingCalculator._calculate_r_multiple_score add up, by the same four
\* if / elif chains.
ExpectancyPoints(r_expectancy) ==
    IF FracLess(Frac(1, 2), r_expectancy) THEN 40
    ELSE IF FracLess(Frac(1, 5), r_expectancy) THEN 25
    ELSE IF FracLess(Zero, r_expectancy) THEN 10 ELSE 0

WinRatePoints(r_win_rate) ==
    IF Reaches(r_win_rate, 60) THEN 30
    ELSE IF Reaches(r_win_rate, 50) THEN 20
    ELSE IF Reaches(r_win_rate, 40) THEN 10 ELSE 0

LosingRPoints(average_losing_r) ==
    IF FracLess(Points(-1), average_losing_r) THEN 20
    ELSE IF FracLess(Points(-2), average_losing_r) THEN 10 ELSE 0

\* r_volatility < 2.0 for a root: its radicand below 4.
VolatilityPoints(r_volatility) ==
    IF FracLess(r_volatility.radicand, Points(4)) THEN 10 ELSE 0

RPoints(r_stats) ==
    ExpectancyPoints(r_stats.r_expectancy) + WinRatePoints(r_stats.r_win_rate)
        + LosingRPoints(r_stats.average_losing_r) + VolatilityPoints(r_stats.r_volatility)

\* The label of a total on the scale of the composite rating.
RLabelOfCompositeScale(score) ==
    IF score >= 70 THEN "EXCELLENT"
    ELSE IF score >= 60 THEN "VERY GOOD"
    ELSE IF score >= 50 THEN "GOOD"
    ELSE IF score >= 40 THEN "FAIR"
    ELSE "NEEDS IMPROVEMENT"

\* The label RMultipleStatistics.get_r_performance_rating gives a total.
RLabel(score) ==
    IF score >= 80 THEN "EXCELLENT"
    ELSE IF score >= 65 THEN "VERY GOOD"
    ELSE IF score >= 50 THEN "GOOD"
    ELSE IF score >= 35 THEN "FAIR"
    ELSE "NEEDS IMPROVEMENT"

\* RMultipleStatistics.get_r_performance_rating
get_r_performance_rating(r_stats) == RLabel(RPoints(r_stats))

\* RatingCalculator._calculate_r_multiple_score
calculate_r_multiple_score(r_stats) ==
    IF r_stats.total_valid_r_trades = 0 THEN 50 ELSE RPoints(r_stats)

\* RatingCalculator._score_to_rating
score_to_rating(score) ==
    IF score >= 80 THEN "EXCELLENT"
    ELSE IF score >= 70 THEN "VERY_GOOD"
    ELSE IF score >= 60 THEN "GOOD"
    ELSE IF score >= 50 THEN "SATISFACTORY"
    ELSE IF score >= 40 THEN "FAIR"
    ELSE IF score >= 30 THEN "NEEDS_IMPROVEMENT"
    ELSE "POOR"

-----------------------------------------------------------------------------
(* The calculation stage: a parsed ledger goes through one of the            *)
(* calculators of the repository.                                            *)

NoText == <<>>
NoSoup == <<>>

\* The sections are parsed; nothing is calculated yet.
Init ==
    /\ pc = "parsed"
    /\ \E input \in ParsedInputs :
          /\ closed_trades = input[1]
          /\ performance_metrics = input[2]
    /\ calculated_metrics = DefaultMetrics
    /\ calculator_cache = {}
    /\ r_multiple_data = <<>>
    /\ r_multiple_statistics = RMultipleStatistics
    /\ text = NoText /\ parsed = NoText
    /\ soup = NoSoup /\ statement = NoSoup

\* MT4Processor.process_file after the parsers: the additional metrics,
\* then the comprehensive R-Multiple analysis.
ProcessFile ==
    /\ pc = "parsed"
    /\ performance_metrics.present
    /\ LET r_analysis == calculate_comprehensive_r_analysis(closed_trades)
       IN  /\ calculated_metrics' =
                  calculate_additional_metrics(closed_trades, performance_metrics)
           /\ r_multiple_data' = r_analysis.r_multiple_data
           /\ r_multiple_statistics' = r_analysis.statistics
    /\ pc' = "process_file"
    /\ UNCHANGED <<calculator_cache, performance_metrics, closed_trades, text, parsed, soup, statement>>

\* The position after a call of an operation: its name after the first call
\* on the parsed ledger, its name with "_again" after the second.
Called(first) == IF pc = "parsed" THEN first ELSE first \o "_again"

\* create_calculator("basic").calculate(data): the factory hands out the
\* cached instance, or makes and caches one; a BasicCalculator holds nothing
\* but its configuration.
BasicCalculate ==
    /\ pc \in {"parsed", "basic_calculator"}
    /\ "basic" \in calculator_registry
    /\ pc = "basic_calculator" => "basic" \in calculator_cache
    /\ calculator_cache' = CalculationFactory_create_calculator("basic", calculator_cache)
    /\ calculated_metrics' = BasicCalculator_calculate(closed_trades, performance_metrics)
    /\ pc' = Called("basic_calculator")
    /\ UNCHANGED <<performance_metrics, closed_trades, r_multiple_data, r_multiple_statistics,
                   text, parsed, soup, statement>>

\* create_calculator("r_multiple").calculate(data), the
\* calculations.RMultipleCalculator
RMultipleCalculate ==
    /\ pc \in {"parsed", "r_multiple_calculator"}
    /\ "r_multiple" \in calculator_registry
    /\ pc = "r_multiple_calculator" => "r_multiple" \in calculator_cache
    /\ calculator_cache' = CalculationFactory_create_calculator("r_multiple", calculator_cache)
    /\ LET r_analysis == RMultipleCalculator_calculate(closed_trades)
       IN  /\ r_multiple_data' = r_analysis.r_multiple_data
           /\ r_multiple_statistics' = r_analysis.statistics
    /\ pc' = Called("r_multiple_calculator")
    /\ UNCHANGED <<performance_metrics, closed_trades, calculated_metrics, text, parsed, soup, statement>>

\* calculators.RMultipleCalculator.calculate_comprehensive_r_analysis on the
\* ledger of a processed statement, by the analyzer the processor holds.
ComprehensiveRAnalysis ==
    /\ pc = "process_file"
    /\ LET r_analysis == calculate_comprehensive_r_analysis(closed_trades)
       IN  /\ r_multiple_data' = r_analysis.r_multiple_data
           /\ r_multiple_statistics' = r_analysis.statistics
    /\ pc' = "process_file_again"
    /\ UNCHANGED <<calculator_cache, performance_metrics, closed_trades, calculated_metrics,
                   text, parsed, soup, statement>>

\* MT4CalculatorService.calculate_r_multiple_analysis
ServiceRMultipleAnalysis ==
    /\ pc = "parsed"
    /\ LET r_analysis == calculate_r_multiple_analysis(closed_trades)
       IN  /\ r_multiple_data' = r_analysis.r_multiple_data
           /\ r_multiple_statistics' = r_analysis.statistics
    /\ pc' = "calculator_service"
    /\ UNCHANGED <<calculator_cache, performance_metrics, closed_trades, calculated_metrics, text, parsed, soup, statement>>

\* MT4CalculatorService.calculate_all_metrics
ServiceCalculateAllMetrics ==
    /\ pc = "parsed"
    /\ calculated_metrics' = calculate_all_metrics(closed_trades)
    /\ pc' = "service_metrics"
    /\ UNCHANGED <<calculator_cache, performance_metrics, closed_trades, r_multiple_data,
                   r_multiple_statistics, text, parsed, soup, statement>>

\* UltraFastMT4Calculator.calculate_all_metrics_ultra_fast
UltraFastCalculate ==
    /\ pc = "parsed"
    /\ LET result == calculate_all_metrics_ultra_fast(closed_trades)
       IN  /\ calculated_metrics' = result.metrics
           /\ r_multiple_data' = result.r_multiple_data
           /\ r_multiple_statistics' = result.statistics
    /\ pc' = "ultra_fast"
    /\ UNCHANGED <<calculator_cache, performance_metrics, closed_trades, text, parsed, soup, statement>>

\* The rating the reports print: CalculatedMetrics.get_comprehensive_rating
\* on the metrics the processor or the basic calculator left.
GetComprehensiveRating ==
    /\ pc \in {"process_file", "basic_calculator"}
    /\ parsed' = [raised |-> "",
                  score |-> get_performance_score(calculated_metrics),
                  recovery |-> get_risk_adjusted_score(calculated_metrics),
                  rating |-> get_comprehensive_rating(calculated_metrics)]
    /\ pc' = "comprehensive_rating"
    /\ UNCHANGED <<calculator_cache, performance_metrics, closed_trades, calculated_metrics,
                   r_multiple_data, r_multiple_statistics, text, soup, statement>>

\* RatingCalculator.calculate on the same metrics: the two scores.
RatingCalculate ==
    /\ pc \in {"process_file", "basic_calculator"}
    /\ parsed' = [raised |-> "",
                  score |-> calculate_performance_score(calculated_metrics),
                  recovery |-> calculate_risk_adjusted_score(calculated_metrics),
                  r_multiple_score |-> calculate_r_multiple_score(r_multiple_statistics),
                  r_multiple_rating |->
                      score_to_rating(calculate_r_multiple_score(r_multiple_statistics))]
    /\ pc' = "rating_calculator"
    /\ UNCHANGED <<calculator_cache, performance_metrics, closed_trades, calculated_metrics,
                   r_multiple_data, r_multiple_statistics, text, soup, statement>>

\* The R rating the reports print: get_r_performance_rating on the
\* statistics the analyzer of the processor left.
GetRPerformanceRating ==
    /\ pc = "process_file"
    /\ parsed' = [raised |-> "",
                  score |-> RPoints(r_multiple_statistics),
                  rating |-> get_r_performance_rating(r_multiple_statistics)]
    /\ pc' = "r_performance_rating"
    /\ UNCHANGED <<calculator_cache, performance_metrics, closed_trades, calculated_metrics,
                   r_multiple_data, r_multiple_statistics, text, soup, statement>>

Next ==
    \/ ProcessFile
    \/ BasicCalculate
    \/ RMultipleCalculate
    \/ ComprehensiveRAnalysis
    \/ ServiceRMultipleAnalysis
    \/ ServiceCalculateAllMetrics
    \/ UltraFastCalculate
    \/ GetComprehensiveRating
    \/ RatingCalculate
    \/ GetRPerformanceRating

Spec == Init /\ [][Next]_vars

-----------------------------------------------------------------------------
(* Properties of the calculation stage *)

MetricsCalculated == pc \in {"process_file", "basic_calculator"}
RAnalyzed == pc \in {"process_file", "r_multiple_calculator", "calculator_service", "ultra_fast"}

Range(s) == {s[i] : i \in 1..Len(s)}

\* C1: for every ledger the calculated gross_profit and gross_loss are not
\* negative and total_net_profit equals gross_profit - gross_loss exactly.
C1_NetIsGrossProfitMinusGrossLoss ==
    MetricsCalculated =>
        /\ calculated_metrics.gross_profit >= 0
        /\ calculated_metrics.gross_loss >= 0
        /\ calculated_metrics.total_net_profit =
               FSub(calculated_metrics.gross_profit, calculated_metrics.gross_loss)

\* A ledger of three trades whose net profit is not the difference of the sums.
C1_Witness ==
    /\ MetricsCalculated
    /\ Len(closed_trades) = 3
    /\ calculated_metrics.total_net_profit #
           FSub(calculated_metrics.gross_profit, calculated_metrics.gross_loss)

\* C2 as stated: profit_factor is +infinity iff gross_loss = 0 and
\* gross_profit > 0, it is 0 iff gross_profit = 0 and gross_loss = 0, and
\* otherwise it is gross_profit / gross_loss.
C2_ZeroOnlyWithoutTrades ==
    MetricsCalculated =>
        LET m == calculated_metrics
        IN  /\ IsInf(m.profit_factor) <=> (m.gross_loss = 0 /\ m.gross_profit > 0)
            /\ FracIsZero(m.profit_factor) <=> (m.gross_profit = 0 /\ m.gross_loss = 0)

\* C2 amended: profit_factor is +infinity iff gross_loss = 0 and
\* gross_profit > 0, it is 0 iff gross_profit = 0 (whatever the losses), and
\* it is gross_profit / gross_loss whenever gross_loss > 0.
C2_ProfitFactor ==
    MetricsCalculated =>
        LET m == calculated_metrics
        IN  /\ IsInf(m.profit_factor) <=> (m.gross_loss = 0 /\ m.gross_profit > 0)
            /\ FracIsZero(m.profit_factor) <=> (m.gross_profit = 0)
            /\ m.gross_loss > 0 =>
                   FracEq(m.profit_factor, Frac(m.gross_profit, m.gross_loss))

\* Only losing trades: the factor is 0 although gross_loss > 0.
C2_Witness ==
    /\ MetricsCalculated
    /\ calculated_metrics.gross_profit = 0
    /\ calculated_metrics.gross_loss > 0
    /\ FracIsZero(calculated_metrics.profit_factor)

\* Initial risk and actual profit as the specification defines them, from the
\* prices of a record alone.
RiskOfRecord(r) == IF r.type = "buy" THEN r.entry_price - r.stop_loss
                   ELSE r.stop_loss - r.entry_price
ProfitOfRecord(r) == IF r.type = "buy" THEN r.exit_price - r.entry_price
                     ELSE r.entry_price - r.exit_price

\* C3: every record an analyzer marks valid has initial risk > 0 and
\* R = actual profit / initial risk, both taken from the prices (exit - entry
\* for a buy, entry - exit for a sell) and not from the reported profit.
C3_RFromPrices ==
    RAnalyzed =>
        \A r \in Range(r_multiple_data) :
            r.is_valid_r_trade =>
                /\ RiskOfRecord(r) > 0
                /\ FracEq(r.r_multiple, Frac(ProfitOfRecord(r), RiskOfRecord(r)))

\* A record marked valid whose R is the reported profit over the risk.
C3_Witness ==
    /\ pc = "ultra_fast"
    /\ \E i \in 1..Len(r_multiple_data) :
           LET r == r_multiple_data[i]
           IN  /\ r.is_valid_r_trade
               /\ ~FracEq(r.r_multiple, Frac(ProfitOfRecord(r), RiskOfRecord(r)))
               /\ FracEq(r.r_multiple, Frac(r.actual_profit, RiskOfRecord(r)))

\* A trade that is structurally invalid for R purposes: no stop, or the stop
\* on the wrong side of the entry (zero or negative risk).
StructurallyInvalid(trade) ==
    \/ trade.s_l <= 0
    \/ trade.type = "buy" /\ trade.price - trade.s_l <= 0
    \/ trade.type = "sell" /\ trade.s_l - trade.price <= 0

Indices(trades, Test(_)) == {i \in 1..Len(trades) : Test(trades[i])}
IsWin(trade) == trade.profit > 0
\* The float sum, in ledger order, of the profits (sign = 1) or of the
\* losses (sign = -1).
RECURSIVE GrossOver(_, _)
GrossOver(trades, sign) ==
    IF trades = <<>> THEN 0
    ELSE LET rest == GrossOver(SubSeq(trades, 1, Len(trades) - 1), sign)
             last == trades[Len(trades)]
         IN  IF last.profit * sign > 0 THEN FAdd(rest, Abs(last.profit)) ELSE rest

\* What process_file leaves behind for a ledger with invalid trades.
C4_InvalidExcludedFromRNotFromMetrics ==
    pc = "process_file" =>
        /\ \A i \in Indices(closed_trades, StructurallyInvalid) :
               \A r \in Range(r_multiple_data) : r.ticket # closed_trades[i].ticket
        /\ r_multiple_statistics.total_valid_r_trades = Len(r_multiple_data)
        /\ Len(r_multiple_data) <=
               Len(closed_trades) - Cardinality(Indices(closed_trades, StructurallyInvalid))
        /\ closed_trades # <<>> =>
               /\ FracEq(calculated_metrics.win_rate,
                         Frac(100 * Cardinality(Indices(closed_trades, IsWin)),
                              Len(closed_trades)))
               /\ calculated_metrics.gross_profit = GrossOver(closed_trades, 1)
               /\ calculated_metrics.gross_loss = GrossOver(closed_trades, -1)

\* C4: a structurally invalid trade has no R record and is not counted in
\* RMultipleStatistics, the analysis leaves the ledger as it was, and the
\* CalculatedMetrics (win rate over the trade count, gross profit, gross
\* loss) are those of the whole ledger, the invalid trades included.
C4_InvalidTradeStaysInLedgerAndMetrics ==
    /\ [](C4_InvalidExcludedFromRNotFromMetrics)
    /\ [][ProcessFile => closed_trades' = closed_trades]_vars

\* A processed ledger with an invalid winning trade next to a valid one.
C4_Witness ==
    /\ pc = "process_file"
    /\ Len(r_multiple_data) = 1
    /\ \E i \in Indices(closed_trades, StructurallyInvalid) : closed_trades[i].profit > 0
    /\ calculated_metrics.gross_profit > 0

\* C5: no analyzer marks a record valid when the stop is missing (zero) or
\* not on the risk-reducing side: below the entry for a buy, above for a sell.
C5_ValidOnlyWithStopOnRiskSide ==
    RAnalyzed =>
        \A r \in Range(r_multiple_data) :
            r.is_valid_r_trade =>
                /\ r.stop_loss > 0
                /\ r.type = "buy" => r.stop_loss < r.entry_price
                /\ r.type = "sell" => r.stop_loss > r.entry_price

\* A buy without a stop that the service marks valid.
C5_Witness ==
    /\ pc = "calculator_service"
    /\ \E r \in Range(r_multiple_data) :
           r.is_valid_r_trade /\ r.type = "buy" /\ r.stop_loss = 0

BucketTotal(distribution) ==
    distribution["below_-2r"] + distribution["-2r_to_-1r"] + distribution["-1r_to_0r"]
    + distribution["0r_to_+1r"] + distribution["+1r_to_+2r"] + distribution["above_+2r"]

\* C6: after every analyzer the six bucket counts of r_distribution sum to
\* total_valid_r_trades: each valid R value is counted in exactly one bucket.
C6_BucketsSumToValidTrades ==
    RAnalyzed =>
        BucketTotal(r_multiple_statistics.r_distribution) =
            r_multiple_statistics.total_valid_r_trades

\* R values on the bucket boundaries -2, -1 and 2 in one analysis.
C6_Witness ==
    /\ RAnalyzed
    /\ r_multiple_statistics.total_valid_r_trades = 3
    /\ r_multiple_statistics.r_distribution["-2r_to_-1r"] = 1
    /\ r_multiple_statistics.r_distribution["-1r_to_0r"] = 1
    /\ r_multiple_statistics.r_distribution["above_+2r"] = 1
    /\ \E r \in Range(r_multiple_data) : FracEq(r.r_multiple, Frac(-2, 1))
    /\ \E r \in Range(r_multiple_data) : FracEq(r.r_multiple, Frac(-1, 1))

-----------------------------------------------------------------------------
(* Text: the values the numeric helpers are called with *)

MaxTextLen == 3     \* longest enumerated string over Alphabet

Digits == {"0", "1", "2", "3", "4", "5", "6", "7", "8", "9"}
DigitChars == <<"0", "1", "2", "3", "4", "5", "6", "7", "8", "9">>
\* The no-break space U+00A0, one character.
Nbsp == "nbsp"
\* What str.strip() strips and \s matches.
Whitespace == {" ", Nbsp}
Alphabet == {"1", "7", " ", Nbsp, ".", ",", "-", "(", ")", "x"}

RECURSIVE Pow10(_)
Pow10(n) == IF n = 0 THEN 1 ELSE 10 * Pow10(n - 1)

\* The decimal digits of a natural number.
RECURSIVE IntDigits(_)
IntDigits(n) == IF n < 10 THEN <<DigitChars[n + 1]>>
                ELSE Append(IntDigits(n \div 10), DigitChars[(n % 10) + 1])

\* Digits in groups of three, separated by a space.
RECURSIVE Grouped(_)
Grouped(digits) ==
    IF Len(digits) <= 3 THEN digits
    ELSE Grouped(SubSeq(digits, 1, Len(digits) - 3)) \o <<" ">>
         \o SubSeq(digits, Len(digits) - 2, Len(digits))

\* A number of hundredths written with space-separated thousands and two
\* decimals after the separator sep: -123456 -> "-1 234,56".
FormatNumber(cents, sep) ==
    LET a == Abs(cents)
    IN  (IF cents < 0 THEN <<"-">> ELSE <<>>)
        \o Grouped(IntDigits(a \div 100))
        \o <<sep, DigitChars[((a % 100) \div 10) + 1], DigitChars[(a % 10) + 1]>>

\* The amounts of the families, in hundredths.
Amounts == {0, 5, 789, 37989, 137989, 123456789, -5, -4510, -137989, -123456789}
Counts == {3, 7, 12}

Str(chars) == [kind |-> "str", chars |-> chars]
None == [kind |-> "None", chars |-> <<"N", "o", "n", "e">>]
\* A number, with the text str() gives for it.
Number(kind, chars) == [kind |-> kind, chars |-> chars]

CountThenAmount(count, cents) ==
    IntDigits(count) \o <<" ", "(">> \o FormatNumber(cents, ".") \o <<")">>
AmountThenCount(count, cents) ==
    FormatNumber(cents, ".") \o <<" ", "(">> \o IntDigits(count) \o <<")">>

\* The drawdown cells: "40.00 (0.02%)", "0.02% (40.00)", and one operand alone.
DrawdownAmounts == {4000, 123456}
DrawdownPercents == {2, 1250}
AmountThenPercent(cents, percent) ==
    FormatNumber(cents, ".") \o <<" ", "(">> \o FormatNumber(percent, ".") \o <<"%", ")">>
PercentThenAmount(cents, percent) ==
    FormatNumber(percent, ".") \o <<"%", " ", "(">> \o FormatNumber(cents, ".") \o <<")">>
DrawdownTexts ==
    {AmountThenPercent(cents, percent) : cents \in DrawdownAmounts, percent \in DrawdownPercents}
    \cup {PercentThenAmount(cents, percent) :
              cents \in DrawdownAmounts, percent \in DrawdownPercents}
    \cup {FormatNumber(cents, ".") : cents \in DrawdownAmounts}
    \cup {FormatNumber(percent, ".") \o <<"%">> : percent \in DrawdownPercents}

TextInputs ==
    {Str(chars) : chars \in SeqsUpTo(Alphabet, MaxTextLen)}
    \cup {Str(chars) : chars \in DrawdownTexts}
    \cup {Str(FormatNumber(cents, sep)) : cents \in Amounts, sep \in {",", "."}}
    \cup {Str(CountThenAmount(count, cents)) : count \in Counts, cents \in Amounts}
    \cup {Str(AmountThenCount(count, cents)) : count \in Counts, cents \in Amounts}
    \cup {None, Number("int", <<"0">>), Number("int", <<"5">>),
          Number("float", <<"5", ".", "5">>), Number("float", <<"0", ".", "0">>)}

\* bool(text)
Truthy(value) ==
    CASE value.kind = "str" -> value.chars # <<>>
      [] value.kind = "None" -> FALSE
      [] OTHER -> value.chars \notin {<<"0">>, <<"0", ".", "0">>}

-----------------------------------------------------------------------------
(* String operations *)

RECURSIVE LStrip(_)
LStrip(s) == IF s # <<>> /\ s[1] \in Whitespace THEN LStrip(Tail(s)) ELSE s
RECURSIVE RStrip(_)
RStrip(s) == IF s # <<>> /\ s[Len(s)] \in Whitespace THEN RStrip(SubSeq(s, 1, Len(s) - 1)) ELSE s
\* str.strip()
Strip(s) == RStrip(LStrip(s))

Contains(s, c) == \E i \in 1..Len(s) : s[i] = c
CountChar(s, c) == Cardinality({i \in 1..Len(s) : s[i] = c})
FirstIndex(s, c) == CHOOSE i \in 1..Len(s) : s[i] = c /\ \A j \in 1..(i - 1) : s[j] # c
LastIndex(s, c) == CHOOSE i \in 1..Len(s) : s[i] = c /\ \A j \in (i + 1)..Len(s) : s[j] # c
\* s.split(c)[0]
BeforeFirst(s, c) == IF Contains(s, c) THEN SubSeq(s, 1, FirstIndex(s, c) - 1) ELSE s

\* s.split(c)[1], for a string that holds c
SecondPart(s, c) == BeforeFirst(SubSeq(s, FirstIndex(s, c) + 1, Len(s)), c)

\* [\d\s.,-]
IsNumericChar(c) == c \in Digits \cup Whitespace \cup {".", ",", "-"}
\* [\d\s.-]
IsAmountChar(c) == c \in Digits \cup Whitespace \cup {".", "-"}
IsNotSpace(c) == c # " "
\* A comma left as it is.
CommaKept(c) == c
\* cleaned.replace(',', '.')
CommaToDot(c) == IF c = "," THEN "." ELSE c

\* ''.join(parts[:-1]) + '.' + parts[-1] for parts = cleaned.split('.')
KeepLastDot(s) ==
    LET last == LastIndex(s, ".")
    IN  [i \in 1..Len(s) |-> IF s[i] = "." /\ i # last THEN "" ELSE s[i]]
IsNotEmptyChar(c) == c # ""
CollapseDots(s) == IF CountChar(s, ".") > 1 THEN SelectSeq(KeepLastDot(s), IsNotEmptyChar) ELSE s

\* The cleaning steps of parse_numeric_value on a str.
Cleaned(chars) ==
    LET text_str == Strip(chars)
        head == IF Contains(text_str, "(") THEN Strip(BeforeFirst(text_str, "(")) ELSE text_str
        numeric == SelectSeq(head, IsNumericChar)
        no_spaces == SelectSeq(numeric, IsNotSpace)
        dotted == [i \in 1..Len(no_spaces) |-> CommaToDot(no_spaces[i])]
    IN  CollapseDots(dotted)

\* The value of a string of digits.
RECURSIVE DigitsValue(_)
DigitsValue(s) ==
    IF s = <<>> THEN 0
    ELSE 10 * DigitsValue(SubSeq(s, 1, Len(s) - 1))
         + (CHOOSE d \in 0..9 : DigitChars[d + 1] = s[Len(s)])

IsDigitChar(c) == c \in Digits

\* The numeric strings Decimal() and float() accept among those the cleaning
\* can leave: an optional minus, digits with at most one point, a digit at least.
IsDecimalString(s) ==
    LET body == IF s # <<>> /\ s[1] = "-" THEN Tail(s) ELSE s
    IN  /\ \A i \in 1..Len(body) : body[i] \in Digits \cup {"."}
        /\ CountChar(body, ".") <= 1
        /\ \E i \in 1..Len(body) : body[i] \in Digits

\* float(Decimal(s)) for such a string.
DecimalValue(s) ==
    LET negative == s[1] = "-"
        body == IF negative THEN Tail(s) ELSE s
        scale == IF Contains(body, ".") THEN Len(body) - FirstIndex(body, ".") ELSE 0
        n == DigitsValue(SelectSeq(body, IsDigitChar))
    IN  Frac(IF negative THEN -n ELSE n, Pow10(scale))

-----------------------------------------------------------------------------
(* parse_numeric_value and extract_consecutive_stats *)

\* What a call gave: the exception that left it, or the count and the value.
Returned(count, value) == [raised |-> "", count |-> count, value |-> value]
Raised(exception) == [raised |-> exception, count |-> 0, value |-> Zero]

\* The try block both versions share, from the stripped text to the float;
\* Decimal() and float() pass over whitespace around the number, and
\* Decimal's InvalidOperation and float's ValueError both end in 0.0.
ParseCleaned(chars) ==
    LET cleaned == Cleaned(chars)
    IN  IF cleaned = <<>> \/ cleaned = <<".">> \/ cleaned = <<"-">> THEN Zero
        ELSE IF IsDecimalString(Strip(cleaned)) THEN DecimalValue(Strip(cleaned))
        ELSE Zero

\* mt4_optimized_final/utils/parsing_utils.py: parse_numeric_value
parse_numeric_value(value) ==
    IF ~Truthy(value) \/ Strip(value.chars) = <<>> THEN Returned(0, Zero)
    ELSE Returned(0, ParseCleaned(value.chars))

\* mt4_final/file.py: parse_numeric_value.  text.strip() is evaluated before
\* the try block, so a number that is not zero has no strip attribute.
final_parse_numeric_value(value) ==
    IF ~Truthy(value) THEN Returned(0, Zero)
    ELSE IF value.kind # "str" THEN Raised("AttributeError")
    ELSE IF Strip(value.chars) = <<>> THEN Returned(0, Zero)
    ELSE Returned(0, ParseCleaned(value.chars))

\* The last index of the run of characters satisfying Test that starts at i
\* (i - 1 when s[i] does not satisfy it).
RECURSIVE DigitRunEnd(_, _)
DigitRunEnd(s, i) ==
    IF i <= Len(s) /\ s[i] \in Digits THEN DigitRunEnd(s, i + 1) ELSE i - 1
RECURSIVE AmountRunEnd(_, _)
AmountRunEnd(s, i) ==
    IF i <= Len(s) /\ IsAmountChar(s[i]) THEN AmountRunEnd(s, i + 1) ELSE i - 1
RECURSIVE SpaceRunEnd(_, _)
SpaceRunEnd(s, i) ==
    IF i <= Len(s) /\ s[i] \in Whitespace THEN SpaceRunEnd(s, i + 1) ELSE i - 1

CharAt(s, i) == IF i >= 1 /\ i <= Len(s) THEN s[i] ELSE ""

\* (\d+)\s*\(([\d\s.-]+)\) matched at position i: the spans of its groups.
Match1At(s, i) ==
    LET d == DigitRunEnd(s, i)
        open == SpaceRunEnd(s, d + 1) + 1
        a == AmountRunEnd(s, open + 1)
    IN  [found |-> /\ d >= i
                   /\ CharAt(s, open) = "("
                   /\ a >= open + 1
                   /\ CharAt(s, a + 1) = ")",
         group1 |-> <<i, d>>, group2 |-> <<open + 1, a>>]

\* ([\d\s.-]+)\s*\((\d+)\) matched at position i.
Match2At(s, i) ==
    LET a == AmountRunEnd(s, i)
        d == DigitRunEnd(s, a + 2)
    IN  [found |-> /\ a >= i
                   /\ CharAt(s, a + 1) = "("
                   /\ d >= a + 2
                   /\ CharAt(s, d + 1) = ")",
         group1 |-> <<i, a>>, group2 |-> <<a + 2, d>>]

\* re.search: the match at the leftmost position that has one.
Search1(s) ==
    LET starts == {i \in 1..Len(s) : Match1At(s, i).found}
    IN  IF starts = {} THEN [found |-> FALSE, group1 |-> <<1, 0>>, group2 |-> <<1, 0>>]
        ELSE Match1At(s, CHOOSE i \in starts : \A j \in starts : i <= j)
Search2(s) ==
    LET starts == {i \in 1..Len(s) : Match2At(s, i).found}
    IN  IF starts = {} THEN [found |-> FALSE, group1 |-> <<1, 0>>, group2 |-> <<1, 0>>]
        ELSE Match2At(s, CHOOSE i \in starts : \A j \in starts : i <= j)

Group(s, span) == SubSeq(s, span[1], span[2])

\* The operands the two patterns of extract_consecutive_stats pick: the count
\* and the text of the amount, count-then-amount tried first.
MatchedOperands(text_str) ==
    LET match1 == Search1(text_str)
        match2 == Search2(text_str)
    IN  IF match1.found
        THEN [found |-> TRUE,
              count |-> DigitsValue(Group(text_str, match1.group1)),
              amount |-> Group(text_str, match1.group2)]
        ELSE IF match2.found
        THEN [found |-> TRUE,
              count |-> DigitsValue(Group(text_str, match2.group2)),
              amount |-> Group(text_str, match2.group1)]
        ELSE [found |-> FALSE, count |-> 0, amount |-> <<>>]

\* mt4_optimized_final/utils/parsing_utils.py: extract_consecutive_stats
extract_consecutive_stats(value) ==
    IF ~Truthy(value) THEN Returned(0, Zero)
    ELSE LET operands == MatchedOperands(value.chars)
         IN  IF operands.found
             THEN Returned(operands.count,
                           parse_numeric_value(Str(operands.amount)).value)
             ELSE Returned(0, Zero)

\* mt4_final/file.py: extract_consecutive_stats
final_extract_consecutive_stats(value) ==
    IF ~Truthy(value) THEN Returned(0, Zero)
    ELSE LET operands == MatchedOperands(value.chars)
         IN  IF operands.found
             THEN Returned(operands.count,
                           final_parse_numeric_value(Str(operands.amount)).value)
             ELSE Returned(0, Zero)

-----------------------------------------------------------------------------
(* The drawdown cells of the performance block *)

\* PerformanceMetrics(): the drawdown fields of the dataclass, 0.0 by default.
DrawdownFields ==
    [raised |-> "",
     maximal_drawdown_amount |-> Zero, maximal_drawdown_percentage |-> Zero,
     relative_drawdown_amount |-> Zero, relative_drawdown_percentage |-> Zero]

\* PerformanceParser._parse_maximal_drawdown: the data object after the call.
parse_maximal_drawdown(value_text, performance_data) ==
    IF Contains(value_text, "(") /\ Contains(value_text, "%")
    THEN [performance_data EXCEPT
             !.maximal_drawdown_amount =
                 parse_numeric_value(Str(Strip(BeforeFirst(value_text, "(")))).value,
             !.maximal_drawdown_percentage =
                 parse_numeric_value(
                     Str(Strip(BeforeFirst(SecondPart(value_text, "("), "%")))).value]
    ELSE [performance_data EXCEPT
             !.maximal_drawdown_amount = parse_numeric_value(Str(value_text)).value]

\* PerformanceParser._parse_relative_drawdown: the data object after the call.
parse_relative_drawdown(value_text, performance_data) ==
    IF Contains(value_text, "(") /\ Contains(value_text, "%")
    THEN LET percent_first == Contains(BeforeFirst(value_text, "("), "%")
             amount_part == IF percent_first
                            THEN Strip(BeforeFirst(SecondPart(value_text, "("), ")"))
                            ELSE Strip(BeforeFirst(value_text, "("))
             percentage_part == IF percent_first THEN Strip(BeforeFirst(value_text, "%"))
                                ELSE Strip(BeforeFirst(SecondPart(value_text, "("), "%"))
         IN  [performance_data EXCEPT
                 !.relative_drawdown_amount = parse_numeric_value(Str(amount_part)).value,
                 !.relative_drawdown_percentage =
                     parse_numeric_value(Str(percentage_part)).value]
    ELSE [performance_data EXCEPT
             !.relative_drawdown_percentage = parse_numeric_value(Str(value_text)).value]

-----------------------------------------------------------------------------
(* The text helpers as a state machine: one call on one argument *)

InitText ==
    /\ pc = "text"
    /\ text \in TextInputs
    /\ parsed = Returned(0, Zero)
    /\ closed_trades = <<>>
    /\ performance_metrics = NoPerformance
    /\ calculator_cache = {}
    /\ calculated_metrics = DefaultMetrics
    /\ r_multiple_data = <<>>
    /\ r_multiple_statistics = RMultipleStatistics
    /\ soup = NoSoup /\ statement = NoSoup

TextCall(name, result) ==
    /\ pc = "text"
    /\ parsed' = result
    /\ pc' = name
    /\ UNCHANGED <<calculator_cache, performance_metrics, text, closed_trades, calculated_metrics, r_multiple_data,
                   r_multiple_statistics, soup, statement>>

ParseNumericValue == TextCall("parse_numeric_value", parse_numeric_value(text))
FinalParseNumericValue ==
    TextCall("final_parse_numeric_value", final_parse_numeric_value(text))
ExtractConsecutiveStats ==
    TextCall("extract_consecutive_stats", extract_consecutive_stats(text))
FinalExtractConsecutiveStats ==
    TextCall("final_extract_consecutive_stats", final_extract_consecutive_stats(text))

\* The custom value parser of the performance block on the text of a value
\* cell (get_text_safely gives a str), the data object fresh.
ParseMaximalDrawdown ==
    /\ text.kind = "str"
    /\ TextCall("parse_maximal_drawdown", parse_maximal_drawdown(text.chars, DrawdownFields))
ParseRelativeDrawdown ==
    /\ text.kind = "str"
    /\ TextCall("parse_relative_drawdown", parse_relative_drawdown(text.chars, DrawdownFields))

NextText ==
    \/ ParseNumericValue
    \/ FinalParseNumericValue
    \/ ExtractConsecutiveStats
    \/ FinalExtractConsecutiveStats
    \/ ParseMaximalDrawdown
    \/ ParseRelativeDrawdown

SpecText == InitText /\ [][NextText]_vars

-----------------------------------------------------------------------------
(* Properties of the text helpers *)

NumberParsed == pc \in {"parse_numeric_value", "final_parse_numeric_value"}
StatsExtracted == pc \in {"extract_consecutive_stats", "final_extract_consecutive_stats"}

\* C7: for a cell "count (amount)" and for a cell "amount (count)" the
\* extraction returns the integer operand as the count and the space-grouped
\* decimal operand as the amount.
C7_CountAndAmountFromBothShapes ==
    StatsExtracted =>
        \A count \in Counts, cents \in Amounts :
            text \in {Str(CountThenAmount(count, cents)), Str(AmountThenCount(count, cents))}
                => /\ parsed.raised = ""
                   /\ parsed.count = count
                   /\ FracEq(parsed.value, Frac(cents, 100))

\* "1 379.89 (7)" read as the count 89 and the amount 7.0.
C7_Witness ==
    /\ StatsExtracted
    /\ text = Str(AmountThenCount(7, 137989))
    /\ parsed.count = 89
    /\ FracEq(parsed.value, Frac(7, 1))

HasNoDigit(value) == value.kind = "None" \/ \A i \in 1..Len(value.chars) : value.chars[i] \notin Digits

\* C8: parse_numeric_value raises for no text, None or number, and returns
\* 0.0 for what is not a number: empty, blank or digitless text, None.
C8_ParseNeverRaises ==
    NumberParsed =>
        /\ parsed.raised = ""
        /\ HasNoDigit(text) => FracIsZero(parsed.value)

\* The number 5 given to the mt4_final version.
C8_Witness ==
    /\ pc = "final_parse_numeric_value"
    /\ text = Number("int", <<"5">>)
    /\ parsed.raised = "AttributeError"

\* C9: a number written with spaces between the thousands and a comma before
\* the decimals parses back to the same number, for no, one or two groups of
\* thousands and for negative numbers.
C9_RoundTrip ==
    NumberParsed =>
        \A cents \in Amounts :
            text = Str(FormatNumber(cents, ","))
                => parsed.raised = "" /\ FracEq(parsed.value, Frac(cents, 100))

\* "-1 234 567,89" parsed to -1234567.89.
C9_Witness ==
    /\ pc = "parse_numeric_value"
    /\ text = Str(<<"-", "1", " ", "2", "3", "4", " ", "5", "6", "7", ",", "8", "9">>)
    /\ parsed = Returned(0, Frac(-123456789, 100))

-----------------------------------------------------------------------------
(* The statement document *)

MaxRows == 2        \* most data rows in one trade table

\* A cell: the label of its <b> element ("" without one), the text after it
\* (a sequence of characters, a word the parsers only compare being one
\* element), its class and whether it carries a colspan.  A row: its align and bgcolor
\* attributes and its cells.  The document is its rows in document order.
Cell(bold, txt, class, colspan) ==
    [bold |-> bold, text |-> txt, class |-> class, colspan |-> colspan]
Td(txt) == Cell("", txt, "", FALSE)
Row(align, bgcolor, cells) == [align |-> align, bgcolor |-> bgcolor, cells |-> cells]

HEADER_ROW_BG_COLOR == "#C0C0C0"
MSPT_CLASS == "mspt"

ClosedHeaders ==
    <<<<"Ticket">>, <<"Open Time">>, <<"Type">>, <<"Size">>, <<"Item">>, <<"Price">>,
      <<"S / L">>, <<"T / P">>, <<"Close Time">>, <<"Price">>, <<"Commission">>,
      <<"Taxes">>, <<"Swap">>, <<"Profit">>>>
\* The open-trades table has a blank column (&nbsp;) where the close time
\* would be.
OpenHeaders == [ClosedHeaders EXCEPT ![9] = <<Nbsp>>]

HeaderRow(headers) ==
    Row("center", HEADER_ROW_BG_COLOR, [i \in 1..Len(headers) |-> Td(headers[i])])
LabelRow(label) == Row("left", "", <<Cell(label, <<>>, "", TRUE)>>)

RowKinds == {"buy", "sell", "balance", "bad_ticket", "bad_type", "short", "totals"}
\* The kinds of the rows where the sections, not the rows, are varied.
FewRowKinds == {"buy", "short"}

\* The data row of a kind with the given ticket text.  A balance row is a
\* deposit of 500.00: no size, no prices, no close time.  A totals row is a
\* blank cell over the first ten columns and the sums of the last four.  A
\* bad_ticket row has the ticket "x", a bad_type row the type "credit", a
\* short row two cells.
DataRow(kind, ticket) ==
    IF kind = "short"
    THEN Row("right", "", <<Td(ticket), Td(<<"2024.01.02 09:00">>)>>)
    ELSE IF kind = "totals"
    THEN Row("right", "",
             <<Cell("", <<Nbsp>>, "", TRUE),
               Cell("", <<"0", ".", "0", "0">>, MSPT_CLASS, FALSE),
               Cell("", <<"0", ".", "0", "0">>, MSPT_CLASS, FALSE),
               Cell("", <<"0", ".", "0", "0">>, MSPT_CLASS, FALSE),
               Cell("", <<"1", " ", "0", "0", "0", ".", "5", "0">>, MSPT_CLASS, FALSE)>>)
    ELSE IF kind = "balance"
    THEN Row("right", "",
             <<Td(ticket), Td(<<"2024.01.02 09:00">>), Td(<<"balance">>),
               Td(<<"0", ".", "0", "0">>), Td(<<"Deposit">>),
               Td(<<"0">>), Td(<<"0">>), Td(<<"0">>),
               Td(<<>>), Td(<<"0">>),
               Td(<<"0">>), Td(<<"0">>), Td(<<"0">>),
               Td(<<"5", "0", "0", ".", "0", "0">>)>>)
    ELSE Row("right", "",
             <<Td(IF kind = "bad_ticket" THEN <<"x">> ELSE ticket),
               Td(<<"2024.01.02 09:00">>),
               Td(IF kind = "sell" THEN <<"sell">>
                  ELSE IF kind = "bad_type" THEN <<"credit">> ELSE <<"buy">>),
               Td(<<"0", ".", "1", "0">>), Td(<<"eurusd">>),
               Td(<<"4">>), Td(<<"3">>), Td(<<"0">>),
               Td(<<"2024.01.02 10:00">>), Td(<<"5">>),
               Td(<<"0">>), Td(<<"0">>), Td(<<"0">>),
               Td(<<"1", " ", "0", "0", "0", ".", "5", "0">>)>>)

AccountRows ==
    [absent |-> <<>>,
     account_only |-> <<Row("left", "", <<Cell("Account:", <<"12345">>, "", FALSE)>>)>>,
     full |-> <<Row("left", "", <<Cell("Account:", <<"12345">>, "", FALSE),
                                  Cell("Name:", <<"Trader">>, "", FALSE),
                                  Cell("Currency:", <<"USD">>, "", FALSE)>>)>>]

SummaryRows ==
    [absent |-> <<>>,
     present |-> <<LabelRow("Summary:"),
                   Row("right", "",
                       <<Cell("Balance:", <<>>, "", FALSE),
                         Cell("", <<"1", " ", "2", "3", "4", ".", "5", "6">>, MSPT_CLASS, FALSE),
                         Cell("Equity:", <<>>, "", FALSE),
                         Cell("", <<"1", " ", "2", "5", "0", ".", "0", "0">>, MSPT_CLASS, FALSE)>>)>>,
     \* two value cells after one label, and a plain cell before a value
     two_values |-> <<Row("right", "",
                          <<Cell("Balance:", <<>>, "", FALSE),
                            Cell("", <<"7">>, MSPT_CLASS, FALSE),
                            Cell("", <<"8">>, MSPT_CLASS, FALSE),
                            Cell("Equity:", <<>>, "", FALSE),
                            Td(<<"6">>),
                            Cell("", <<"9">>, MSPT_CLASS, FALSE)>>)>>,
     \* two labels and a bold text that is no label before one value cell
     two_labels |-> <<Row("right", "",
                          <<Cell("Balance:", <<>>, "", FALSE),
                            Cell("Equity:", <<>>, "", FALSE),
                            Cell("Total:", <<>>, "", FALSE),
                            Cell("", <<"7">>, MSPT_CLASS, FALSE)>>)>>,
     \* a label at the end of a row, and the next row begins with a value
     label_at_end |-> <<Row("right", "",
                            <<Cell("", <<"7">>, MSPT_CLASS, FALSE),
                              Cell("Balance:", <<>>, "", FALSE)>>),
                        Row("right", "",
                            <<Cell("", <<"8">>, MSPT_CLASS, FALSE),
                              Cell("Equity:", <<>>, "", FALSE),
                              Cell("", <<"9">>, MSPT_CLASS, FALSE)>>)>>,
     \* a label inside the value cell itself, and the same label twice
     label_in_value |-> <<Row("right", "",
                              <<Cell("Margin:", <<"5">>, MSPT_CLASS, FALSE),
                                Cell("", <<"6">>, MSPT_CLASS, FALSE)>>),
                          Row("left", "",
                              <<Cell("Balance:", <<>>, "", FALSE),
                                Cell("", <<"7">>, MSPT_CLASS, FALSE)>>),
                          Row("right", "",
                              <<Cell("Equity:", <<>>, "", FALSE),
                                Cell("", <<"8">>, MSPT_CLASS, FALSE),
                                Cell("Equity:", <<>>, "", FALSE),
                                Cell("", <<"9">>, MSPT_CLASS, FALSE)>>)>>]

\* A trade section: missing, its label row alone, or the label row, the header
\* row (for the shape late_header after a row of two cells) and the data rows
\* of the given kinds; the tickets are prefix then position.
TablePlan(shape, kinds) == [shape |-> shape, kinds |-> kinds]
TablePlans ==
    {TablePlan("absent", <<>>), TablePlan("label_only", <<>>)}
    \cup {TablePlan("table", kinds) : kinds \in SeqsUpTo(RowKinds, MaxRows)}
FewTablePlans ==
    {TablePlan("absent", <<>>), TablePlan("label_only", <<>>)}
    \cup {TablePlan("table", kinds) : kinds \in SeqsUpTo(FewRowKinds, MaxRows)}

TableRows(plan, label, headers, prefix) ==
    IF plan.shape = "absent" THEN <<>>
    ELSE IF plan.shape = "label_only" THEN <<LabelRow(label)>>
    ELSE (IF plan.shape = "late_header"
          THEN <<LabelRow(label), DataRow("short", <<"0">>), HeaderRow(headers)>>
          ELSE <<LabelRow(label), HeaderRow(headers)>>)
         \o [k \in 1..Len(plan.kinds) |->
                DataRow(plan.kinds[k], prefix \o <<DigitChars[k + 1]>>)]

\* The documents: every combination of present and missing sections around
\* small trade tables, and every closed table before each shape of the
\* open-trades section in a statement that has all its sections.
SectionPlans ==
    [account : DOMAIN AccountRows, summary : {"absent", "present"},
     closed : FewTablePlans, open : FewTablePlans]
LedgerPlans ==
    [account : {"full"}, summary : {"present"},
     closed : TablePlans,
     open : {TablePlan("absent", <<>>), TablePlan("label_only", <<>>),
             TablePlan("table", <<"buy">>)}]
\* A closed section whose header row comes after a row of another kind.
HeaderPlans ==
    [account : {"full"}, summary : {"present"},
     closed : {TablePlan("late_header", kinds) : kinds \in SeqsUpTo(FewRowKinds, MaxRows)},
     open : {TablePlan("absent", <<>>), TablePlan("label_only", <<>>),
             TablePlan("table", <<"buy">>)}]
\* Every shape of the summary rows, after the trade tables or alone.
SummaryPlans ==
    [account : {"full"}, summary : DOMAIN SummaryRows,
     closed : {TablePlan("absent", <<>>), TablePlan("table", <<"buy", "totals">>)},
     open : {TablePlan("absent", <<>>)}]
Plans == SectionPlans \cup LedgerPlans \cup HeaderPlans \cup SummaryPlans

Document(plan) ==
    AccountRows[plan.account]
    \o TableRows(plan.closed, "Closed Transactions:", ClosedHeaders, <<>>)
    \o TableRows(plan.open, "Open Trades:", OpenHeaders, <<"9">>)
    \o SummaryRows[plan.summary]

-----------------------------------------------------------------------------
(* The section parsers *)

\* safe_get_text: element.get_text().strip()
safe_get_text(cell) == Strip(cell.text)

\* AccountInfo(): the dataclass defaults.
AccountInfo ==
    [account_number |-> <<>>, account_name |-> <<>>, currency |-> <<>>,
     leverage |-> <<"Not specified">>, report_date |-> <<>>]

Matching(seq, Test(_)) == {i \in 1..Len(seq) : Test(seq[i])}
First(indices) == CHOOSE i \in indices : \A j \in indices : i <= j
Last(indices) == CHOOSE i \in indices : \A j \in indices : i >= j

IsLeftAligned(row) == row.align = "left"
IsRightAligned(row) == row.align = "right"

\* The text after the last bold label equal to label in the row, or the
\* value the field had.
BoldValue(row, label, default) ==
    LET hits == {i \in 1..Len(row.cells) : row.cells[i].bold = label}
    IN  IF hits = {} THEN default ELSE Strip(row.cells[Last(hits)].text)

\* AccountParser.parse
AccountParser_parse(rows) ==
    LET left == Matching(rows, IsLeftAligned)
    IN  IF left = {} THEN AccountInfo
        ELSE LET account_row == rows[First(left)]
             IN  [AccountInfo EXCEPT
                    !.account_number = BoldValue(account_row, "Account:", @),
                    !.account_name = BoldValue(account_row, "Name:", @),
                    !.currency = BoldValue(account_row, "Currency:", @)]

FINANCIAL_LABELS ==
    {"Deposit/Withdrawal:", "Credit Facility:", "Closed Trade P/L:",
     "Floating P/L:", "Margin:", "Balance:", "Equity:", "Free Margin:"}

\* FinancialSummary(): the dataclass defaults, by label.
FinancialSummary == [label \in FINANCIAL_LABELS |-> Zero]

\* The scan of one row that keeps the label after its value cell.
RECURSIVE ScanCells_LabelKept(_, _, _, _)
ScanCells_LabelKept(cells, i, current_label, data) ==
    IF i > Len(cells) THEN data
    ELSE LET cell == cells[i]
             label == IF cell.bold \in FINANCIAL_LABELS THEN cell.bold ELSE current_label
         IN  IF cell.class = MSPT_CLASS /\ label # ""
             THEN ScanCells_LabelKept(cells, i + 1, label,
                            [data EXCEPT ![label] =
                                parse_numeric_value(Str(safe_get_text(cell))).value])
             ELSE ScanCells_LabelKept(cells, i + 1, label, data)

\* The cells of one row, scanned from cell i with the pending label.
RECURSIVE ScanCells(_, _, _, _)
ScanCells(cells, i, current_label, data) ==
    IF i > Len(cells) THEN data
    ELSE LET cell == cells[i]
             label == IF cell.bold \in FINANCIAL_LABELS THEN cell.bold ELSE current_label
         IN  IF cell.class = MSPT_CLASS /\ label # ""
             THEN ScanCells(cells, i + 1, "",
                            [data EXCEPT ![label] =
                                parse_numeric_value(Str(safe_get_text(cell))).value])
             ELSE ScanCells(cells, i + 1, label, data)

\* BaseParser.parse_labeled_data over the right-aligned rows from row i on.
RECURSIVE parse_labeled_data(_, _, _)
parse_labeled_data(rows, i, data) ==
    IF i > Len(rows) THEN data
    ELSE IF IsRightAligned(rows[i])
    THEN parse_labeled_data(rows, i + 1, ScanCells(rows[i].cells, 1, "", data))
    ELSE parse_labeled_data(rows, i + 1, data)

\* FinancialParser.parse
FinancialParser_parse(rows) == parse_labeled_data(rows, 1, FinancialSummary)

-----------------------------------------------------------------------------
(* The trade-table parser *)

SECTION_HEADERS == {"Closed Transactions:", "Open Trades:", "Working Orders:"}
NumericColumns ==
    {<<"Size">>, <<"Price">>, <<"S / L">>, <<"T / P">>, <<"Commission">>,
     <<"Taxes">>, <<"Swap">>, <<"Profit">>, <<"Current Price">>}

\* clean_header_name on the header texts of the statement: lower case, "_"
\* for " " and "/", the stop and target columns renamed, "" for no text.
clean_header_name(header) ==
    CASE header = <<>> -> ""
      [] header = <<"Ticket">> -> "ticket"
      [] header = <<"Open Time">> -> "open_time"
      [] header = <<"Type">> -> "type"
      [] header = <<"Size">> -> "size"
      [] header = <<"Item">> -> "item"
      [] header = <<"Price">> -> "price"
      [] header = <<"S / L">> -> "s_l"
      [] header = <<"T / P">> -> "t_p"
      [] header = <<"Close Time">> -> "close_time"
      [] header = <<"Commission">> -> "commission"
      [] header = <<"Taxes">> -> "taxes"
      [] header = <<"Swap">> -> "swap"
      [] header = <<"Profit">> -> "profit"

\* The dictionary key of column i (counted from 1): the first Price column is
\* the entry price, the one in the tenth place the close price.
HeaderKey(headers, i) ==
    LET header_key == clean_header_name(headers[i])
    IN  IF header_key = "price"
        THEN IF i - 1 = 5 THEN "price"
             ELSE IF i - 1 = 9 THEN "close_price"
             ELSE "price_i"
        ELSE header_key

\* str.isdigit()
isdigit(chars) == chars # <<>> /\ \A i \in 1..Len(chars) : chars[i] \in Digits

\* The dictionary a data row gives: a later column overwrites an earlier one
\* with the same key.
TradeDict(headers, cells) ==
    LET keys == {HeaderKey(headers, i) : i \in 1..Len(headers)}
        column(key) == Last({i \in 1..Len(headers) : HeaderKey(headers, i) = key})
    IN  [key \in keys |->
            LET value == safe_get_text(cells[column(key)])
            IN  IF headers[column(key)] \in NumericColumns
                THEN [number |-> TRUE, text |-> <<>>,
                      value |-> parse_numeric_value(Str(value)).value]
                ELSE [number |-> FALSE, text |-> value, value |-> Zero]]

\* bool() of a dictionary value
NotEmpty(entry) == IF entry.number THEN ~FracIsZero(entry.value) ELSE entry.text # <<>>

\* parsing_utils.validate_trade_data
validate_trade_data(trade_data) ==
    /\ \A field \in {"ticket", "type", "size", "item"} :
           field \in DOMAIN trade_data /\ NotEmpty(trade_data[field])
    /\ isdigit(trade_data["ticket"].text)
    /\ trade_data["type"].text \in {<<"buy">>, <<"sell">>, <<"balance">>}

\* TradeParser._is_section_boundary
is_section_boundary(cells) ==
    \/ Len(cells) = 1 /\ cells[1].colspan
    \/ Len(cells) > 0 /\ cells[1].bold \in SECTION_HEADERS

\* A scan that ends at the first row it cannot use.
RECURSIVE process_trade_rows_until_malformed(_, _, _)
process_trade_rows_until_malformed(rows, i, headers) ==
    IF i > Len(rows) THEN <<>>
    ELSE LET cells == rows[i].cells
         IN  IF is_section_boundary(cells) THEN <<>>
             ELSE IF Len(cells) # Len(headers) THEN <<>>
             ELSE IF ~isdigit(safe_get_text(cells[1])) THEN <<>>
             ELSE LET trade_data == TradeDict(headers, cells)
                  IN  IF "ticket" \in DOMAIN trade_data
                         /\ NotEmpty(trade_data["ticket"])
                         /\ validate_trade_data(trade_data)
                      THEN <<trade_data>>
                           \o process_trade_rows_until_malformed(rows, i + 1, headers)
                      ELSE <<>>

\* TradeParser._process_trade_rows, from row i on.
RECURSIVE process_trade_rows(_, _, _)
process_trade_rows(rows, i, headers) ==
    IF i > Len(rows) THEN <<>>
    ELSE LET cells == rows[i].cells
         IN  IF is_section_boundary(cells) THEN <<>>
             ELSE IF Len(cells) # Len(headers)
             THEN process_trade_rows(rows, i + 1, headers)
             ELSE IF ~isdigit(safe_get_text(cells[1]))
             THEN process_trade_rows(rows, i + 1, headers)
             ELSE LET trade_data == TradeDict(headers, cells)
                  IN  IF "ticket" \in DOMAIN trade_data
                         /\ NotEmpty(trade_data["ticket"])
                         /\ validate_trade_data(trade_data)
                      THEN <<trade_data>> \o process_trade_rows(rows, i + 1, headers)
                      ELSE process_trade_rows(rows, i + 1, headers)

TradeDataFields ==
    {"ticket", "open_time", "type", "size", "item", "price", "s_l", "t_p",
     "close_time", "close_price", "commission", "taxes", "swap", "profit",
     "current_price"}
TextFields == {"ticket", "open_time", "type", "item", "close_time"}

\* TradeData(**trade_dict): the fields given, the defaults for the others.
TradeData(trade_dict) ==
    [field \in TradeDataFields |->
        IF field \in DOMAIN trade_dict
        THEN IF trade_dict[field].number THEN trade_dict[field].value
             ELSE trade_dict[field].text
        ELSE IF field \in TextFields THEN <<>> ELSE Zero]

\* TradeParser._find_section_by_header: the first row whose first cell is bold
\* and holds the section label; 0 when there is none.
find_section_by_header(rows, header_text) ==
    LET found == {i \in 1..Len(rows) :
                     Len(rows[i].cells) > 0 /\ rows[i].cells[1].bold = header_text}
    IN  IF found = {} THEN 0 ELSE First(found)

\* TradeParser._find_header_row: the first later row with the header
\* background; 0 when there is none.
find_header_row(rows, section_row) ==
    LET found == {i \in (section_row + 1)..Len(rows) :
                     rows[i].bgcolor = HEADER_ROW_BG_COLOR}
    IN  IF found = {} THEN 0 ELSE First(found)

\* The try block of parse_closed_trades and parse_open_trades: the ledger,
\* or the exception the block ended with.
ParseTrades(rows, header_text) ==
    LET section == find_section_by_header(rows, header_text)
        header_row == find_header_row(rows, section)
    IN  IF section = 0 THEN [raised |-> "", trades |-> <<>>]
        ELSE IF header_row = 0 THEN [raised |-> "", trades |-> <<>>]
        ELSE LET headers == [i \in 1..Len(rows[header_row].cells) |->
                                safe_get_text(rows[header_row].cells[i])]
                 trades_data == process_trade_rows(rows, header_row + 1, headers)
             IN  IF \E k \in 1..Len(trades_data) :
                        ~(DOMAIN trades_data[k] \subseteq TradeDataFields)
                 THEN [raised |-> "TypeError", trades |-> <<>>]
                 ELSE [raised |-> "",
                       trades |-> [k \in 1..Len(trades_data) |-> TradeData(trades_data[k])]]

\* except Exception: the error is logged and the empty list returned.
parse_closed_trades(rows) == ParseTrades(rows, "Closed Transactions:").trades
parse_open_trades(rows) == ParseTrades(rows, "Open Trades:").trades

-----------------------------------------------------------------------------
(* Parsing as a state machine: a loaded document goes through the section   *)
(* parsers.                                                                 *)

NoStatement ==
    [raised |-> "", account_info |-> AccountInfo, financial_summary |-> FinancialSummary,
     closed_trades |-> <<>>, open_trades |-> <<>>]

InitParse ==
    /\ pc = "loaded"
    /\ soup \in {Document(plan) : plan \in Plans}
    /\ statement = NoStatement
    /\ closed_trades = <<>>
    /\ performance_metrics = NoPerformance
    /\ calculator_cache = {}
    /\ calculated_metrics = DefaultMetrics
    /\ r_multiple_data = <<>>
    /\ r_multiple_statistics = RMultipleStatistics
    /\ text = NoText /\ parsed = NoText

\* The parsing half of MT4Processor.process_file: no section parser lets an
\* exception out.
ParseSections ==
    /\ pc = "loaded"
    /\ statement' = [raised |-> "",
                     account_info |-> AccountParser_parse(soup),
                     financial_summary |-> FinancialParser_parse(soup),
                     closed_trades |-> parse_closed_trades(soup),
                     open_trades |-> parse_open_trades(soup)]
    /\ pc' = "sections_parsed"
    /\ UNCHANGED <<calculator_cache, performance_metrics, soup, closed_trades, calculated_metrics, r_multiple_data,
                   r_multiple_statistics, text, parsed>>

\* ParserFactory.create_parser: whether a parser is returned (cached, or
\* created from the soup given); otherwise it raises ValueError.
create_parser(parser_type, parser_cache, soup_given) ==
    /\ parser_type \in {"account", "financial", "performance", "trade"}
    /\ (parser_type \in parser_cache \/ soup_given)

\* ParsingService.process on a fresh service: each _parse_* helper asks the
\* factory for its parser without a soup and calls parser.parse(soup); any
\* exception of the helper is the section's default object.
ParsingService_process(rows) ==
    LET parser_cache == {}
        created(parser_type) == create_parser(parser_type, parser_cache, FALSE)
        \* parse() takes no argument: parser.parse(soup) is a TypeError
        parsed_by(parser_type) == FALSE
    IN  [account_info |-> IF created("account") /\ parsed_by("account")
                          THEN AccountParser_parse(rows) ELSE AccountInfo,
         financial_summary |-> IF created("financial") /\ parsed_by("financial")
                               THEN FinancialParser_parse(rows) ELSE FinancialSummary,
         closed_trades |-> IF created("trade") /\ parsed_by("trade")
                           THEN parse_closed_trades(rows) ELSE <<>>,
         open_trades |-> IF created("trade") /\ parsed_by("trade")
                         THEN parse_open_trades(rows) ELSE <<>>]

\* ValidationService._validate_account_info: the issues of an AccountInfo.
validate_account_info(account_info) ==
    (IF account_info.account_number = <<>> THEN {"Account number is missing"} ELSE {})
    \cup (IF account_info.account_name = <<>> THEN {"Account name is missing"} ELSE {})
    \cup (IF account_info.currency = <<>> THEN {"Account currency is missing"} ELSE {})

\* ValidationService._validate_single_trade: the issues of one trade.
validate_single_trade(trade) ==
    (IF /\ trade["close_time"] # <<>> /\ ~FracIsZero(trade["close_price"])
        /\ ~FracPos(trade["close_price"])
     THEN {"Missing or invalid close price"} ELSE {})
    \cup (IF ~FracPos(trade["price"]) THEN {"Invalid entry price"} ELSE {})
    \cup (IF trade["s_l"].n < 0 THEN {"Invalid stop loss"} ELSE {})
    \cup (IF trade["t_p"].n < 0 THEN {"Invalid take profit"} ELSE {})

\* ValidationService._validate_trade_data: the issues of the two ledgers.
validate_trade_data_section(closed, open) ==
    LET all_trades == closed \o open
        tickets == [k \in 1..Len(all_trades) |-> all_trades[k]["ticket"]]
    IN  IF all_trades = <<>> THEN {}
        ELSE UNION {validate_single_trade(all_trades[k]) : k \in 1..Len(all_trades)}
             \cup (IF Cardinality({tickets[k] : k \in 1..Len(tickets)}) # Len(tickets)
                   THEN {"Duplicate trade tickets found"} ELSE {})
             \cup (IF \E k \in 1..Len(all_trades) :
                          all_trades[k]["type"] \notin {<<"buy">>, <<"sell">>, <<"balance">>}
                   THEN {"Invalid trade types found"} ELSE {})

\* ValidationService.process: the critical issues.  The financial and the
\* performance sections never clear their is_valid flag.
ValidationService_process(parsed_data) ==
    validate_account_info(parsed_data.account_info)
    \cup validate_trade_data_section(parsed_data.closed_trades, parsed_data.open_trades)

\* core.MT4Processor.process_file: parse, validate, and raise
\* MT4ValidationError when the validation found a critical issue.
CoreProcessFile ==
    /\ pc = "loaded"
    /\ LET parsed_data == ParsingService_process(soup)
       IN  statement' =
             IF ValidationService_process(parsed_data) # {}
             THEN [NoStatement EXCEPT !.raised = "MT4ValidationError"]
             ELSE [raised |-> "",
                   account_info |-> parsed_data.account_info,
                   financial_summary |-> parsed_data.financial_summary,
                   closed_trades |-> parsed_data.closed_trades,
                   open_trades |-> parsed_data.open_trades]
    /\ pc' = "core_process_file"
    /\ UNCHANGED <<calculator_cache, performance_metrics, soup, closed_trades, calculated_metrics, r_multiple_data,
                   r_multiple_statistics, text, parsed>>

NextParse ==
    \/ ParseSections
    \/ CoreProcessFile

SpecParse == InitParse /\ [][NextParse]_vars

-----------------------------------------------------------------------------
(* Properties of the section parsers *)

\* The rows of the table under a section label: those after its header row
\* and before the next label row.
RowsOfSection(rows, label) ==
    LET start == find_section_by_header(rows, label)
        later == {i \in (start + 1)..Len(rows) :
                     Len(rows[i].cells) > 0 /\ rows[i].cells[1].bold # ""}
        end == IF later = {} THEN Len(rows) + 1 ELSE First(later)
    IN  IF start = 0 THEN <<>> ELSE SubSeq(rows, start + 2, end - 1)

\* A well-formed trade row: fourteen cells, a numeric ticket, type buy or sell.
IsTradeRow(row) ==
    /\ Len(row.cells) = 14
    /\ isdigit(Strip(row.cells[1].text))
    /\ Strip(row.cells[3].text) \in {<<"buy">>, <<"sell">>}

TicketsOfRows(rows) == [k \in 1..Len(rows) |-> Strip(rows[k].cells[1].text)]
TicketsOfTrades(trades) == [k \in 1..Len(trades) |-> trades[k]["ticket"]]
TradeTickets(rows, label) == TicketsOfRows(SelectSeq(RowsOfSection(rows, label), IsTradeRow))

HasBold(rows, label) ==
    \E i \in 1..Len(rows) : \E j \in 1..Len(rows[i].cells) : rows[i].cells[j].bold = label

\* C10: the section parsers let no exception out; a missing section gives the
\* default object or the empty ledger, a present one its content: the account
\* number of the account row, the balance of the summary rows, and one trade
\* for every well-formed row of the closed and of the open table.
C10_MissingSectionsDefaultPresentParsed ==
    pc = "sections_parsed" =>
        /\ statement.raised = ""
        /\ statement.account_info.account_number =
               (IF HasBold(soup, "Account:") THEN <<"12345">> ELSE <<>>)
        /\ ~HasBold(soup, "Account:") => statement.account_info = AccountInfo
        /\ FracEq(statement.financial_summary["Balance:"],
                  IF HasBold(soup, "Balance:") THEN Frac(123456, 100) ELSE Zero)
        /\ ~HasBold(soup, "Balance:") => statement.financial_summary = FinancialSummary
        /\ TicketsOfTrades(statement.closed_trades) = TradeTickets(soup, "Closed Transactions:")
        /\ TicketsOfTrades(statement.open_trades) = TradeTickets(soup, "Open Trades:")

\* An open-trades table with a well-formed row, and an empty open ledger.
C10_Witness ==
    /\ pc = "sections_parsed"
    /\ TradeTickets(soup, "Open Trades:") # <<>>
    /\ statement.open_trades = <<>>
    /\ statement.closed_trades # <<>>

\* C11: a statement with a missing section is processed to one result, with
\* the defaults in place of the missing section; process_file (of either
\* processor) does not end in an exception because a section was not found.
C11_MissingSectionNeverRaises ==
    pc \in {"sections_parsed", "core_process_file"} =>
        /\ statement.raised = ""
        /\ ~HasBold(soup, "Account:") => statement.account_info = AccountInfo
        /\ ~HasBold(soup, "Balance:") => statement.financial_summary = FinancialSummary
        /\ ~HasBold(soup, "Closed Transactions:") => statement.closed_trades = <<>>
        /\ ~HasBold(soup, "Open Trades:") => statement.open_trades = <<>>

\* A statement without an account row, processed by the core processor, ends
\* in MT4ValidationError.
C11_Witness ==
    /\ pc = "core_process_file"
    /\ ~HasBold(soup, "Account:")
    /\ HasBold(soup, "Closed Transactions:")
    /\ statement.raised = "MT4ValidationError"

\* The numbers of winning and losing trades of the ledger handed to the
\* calculator.
WinnersOf(trades) == Cardinality({i \in DOMAIN trades : trades[i].profit > 0})
LosersOf(trades) == Cardinality({i \in DOMAIN trades : trades[i].profit < 0})

\* Two metrics objects hold the same numbers: the sums are equal and the
\* ratios are equal as quotients.
RatioFields == {"profit_factor", "expected_payoff", "win_rate", "risk_reward_ratio",
                "kelly_percentage", "recovery_factor", "average_trade_profit",
                "average_trade_loss", "win_loss_ratio"}
SameMetrics(a, b) ==
    /\ a.gross_profit = b.gross_profit
    /\ a.gross_loss = b.gross_loss
    /\ a.total_net_profit = b.total_net_profit
    /\ \A field \in RatioFields : FracEq(a[field], b[field])

\* C12: the metrics calculator divides by no zero.  The empty ledger gives the
\* all-zero default CalculatedMetrics; no ratio other than the profit factor is
\* ever the result of a division by zero (a fraction of denominator 0), and a
\* ratio whose denominator is zero is 0: expected payoff and win rate without
\* trades, average win without winners, average loss, risk-reward and win/loss
\* ratio without losers, recovery factor without a drawdown amount.
C12_ZeroDenominatorsGiveZero ==
    pc \in {"process_file", "basic_calculator"} =>
        LET m == calculated_metrics
        IN  /\ closed_trades = <<>> => SameMetrics(m, DefaultMetrics)
            /\ \A ratio \in {m.expected_payoff, m.win_rate, m.average_trade_profit,
                              m.average_trade_loss, m.risk_reward_ratio,
                              m.recovery_factor, m.kelly_percentage, m.win_loss_ratio} :
                   ~IsInf(ratio)
            /\ Len(closed_trades) = 0 => m.expected_payoff = Zero /\ m.win_rate = Zero
            /\ WinnersOf(closed_trades) = 0 =>
                   /\ m.average_trade_profit = Zero
                   /\ FracIsZero(m.win_rate)
                   /\ FracIsZero(m.risk_reward_ratio)
                   /\ m.kelly_percentage = Zero
            /\ LosersOf(closed_trades) = 0 =>
                   /\ m.average_trade_loss = Zero
                   /\ m.risk_reward_ratio = Zero
                   /\ m.win_loss_ratio = Zero
                   /\ m.kelly_percentage = Zero
            /\ (~performance_metrics.present
                    \/ performance_metrics.maximal_drawdown_amount = 0) =>
                   m.recovery_factor = Zero
            /\ m.total_net_profit = 0 => FracIsZero(m.recovery_factor)
            /\ IsInf(m.profit_factor) => m.gross_loss = 0 /\ m.gross_profit > 0

\* Two breakeven trades and a drawdown amount of zero: every denominator of
\* the calculation is zero and every ratio is 0.
C12_Witness ==
    /\ pc = "basic_calculator"
    /\ Len(closed_trades) = 2
    /\ \A i \in DOMAIN closed_trades : closed_trades[i].profit = 0
    /\ performance_metrics = PerformanceMetrics(0)
    /\ calculated_metrics.risk_reward_ratio = Zero
    /\ calculated_metrics.recovery_factor = Zero
    /\ calculated_metrics.profit_factor = Zero

\* A balance row of a trade table: fourteen cells, a numeric ticket, type
\* balance.
IsBalanceRow(row) ==
    /\ Len(row.cells) = 14
    /\ isdigit(Strip(row.cells[1].text))
    /\ Strip(row.cells[3].text) = <<"balance">>

\* The single pass of the statistics takes every ledger entry with a profit
\* above zero as a winning trade and every one below zero as a losing trade,
\* whatever its type.
CountedAsWinOrLoss(trade) == ~FracIsZero(trade["profit"])

\* C13: every balance row of the closed-transactions table is an entry of the
\* parsed ledger with type balance, zero size and prices and the row's amount
\* as profit, and no balance entry of the ledger is counted as a winning or a
\* losing trade.
C13_BalanceRowListedNotCounted ==
    pc = "sections_parsed" =>
        LET balance_rows == SelectSeq(RowsOfSection(soup, "Closed Transactions:"),
                                      IsBalanceRow)
            ledger == statement.closed_trades
        IN  /\ \A k \in 1..Len(balance_rows) :
                   \E t \in 1..Len(ledger) :
                       /\ ledger[t]["ticket"] = Strip(balance_rows[k].cells[1].text)
                       /\ ledger[t]["type"] = <<"balance">>
                       /\ FracIsZero(ledger[t]["size"])
                       /\ FracIsZero(ledger[t]["price"])
                       /\ FracIsZero(ledger[t]["close_price"])
                       /\ FracEq(ledger[t]["profit"],
                                 parse_numeric_value(
                                     Str(Strip(balance_rows[k].cells[14].text))).value)
            /\ \A t \in 1..Len(ledger) :
                   ledger[t]["type"] = <<"balance">> => ~CountedAsWinOrLoss(ledger[t])

\* A closed table of a trade and a deposit: the trade is in the ledger, the
\* deposit is not.
C13_Witness ==
    /\ pc = "sections_parsed"
    /\ LET rows == RowsOfSection(soup, "Closed Transactions:")
       IN  /\ Len(rows) = 2
           /\ IsTradeRow(rows[1])
           /\ IsBalanceRow(rows[2])
           /\ Len(statement.closed_trades) = 1
           /\ statement.closed_trades[1]["type"] = <<"buy">>

CommonRatios == {"profit_factor", "win_rate", "expected_payoff", "risk_reward_ratio",
                 "kelly_percentage"}
AgreeOnCommonMetrics(a, b) ==
    /\ a.gross_profit = b.gross_profit
    /\ a.gross_loss = b.gross_loss
    /\ a.total_net_profit = b.total_net_profit
    /\ \A field \in CommonRatios : FracEq(a[field], b[field])

AllClosed(trades) == \A i \in DOMAIN trades : is_closed_trade(trades[i])

\* C15: for every ledger of closed trades the metrics of
\* MT4CalculatorService.calculate_all_metrics and of the ultra-fast calculator
\* agree with those of BasicCalculator.calculate in gross profit, gross loss,
\* net profit, profit factor, win rate, expected payoff, risk-reward ratio
\* and Kelly percentage.
C15_CalculatorsAgree ==
    (pc \in {"service_metrics", "ultra_fast"} /\ AllClosed(closed_trades)) =>
        AgreeOnCommonMetrics(calculated_metrics,
                             BasicCalculator_calculate(closed_trades, performance_metrics))

\* One winning trade and no loser: the service reports an infinite
\* risk-reward ratio, the basic calculator 0.
C15_Witness ==
    /\ pc = "service_metrics"
    /\ Len(closed_trades) = 1
    /\ AllClosed(closed_trades)
    /\ closed_trades[1].profit > 0
    /\ IsInf(calculated_metrics.risk_reward_ratio)
    /\ BasicCalculator_calculate(closed_trades, performance_metrics).risk_reward_ratio = Zero

\* The six steps of the specification's algorithm, on the characters of a
\* text: cut at the first "(", keep digits, spaces, commas, dots and minus
\* signs only, drop the spaces, write dots for commas, keep the last dot only;
\* 0 for an empty remainder, "." or "-", else the number the remainder
\* writes (0 when it writes none).
IsSixStepChar(c) == c \in Digits \cup {" ", ",", ".", "-"}
SixSteps(chars) ==
    LET truncated == BeforeFirst(chars, "(")
        kept == SelectSeq(truncated, IsSixStepChar)
        no_spaces == SelectSeq(kept, IsNotSpace)
        dotted == [i \in 1..Len(no_spaces) |->
                      IF no_spaces[i] = "," THEN "." ELSE no_spaces[i]]
        remainder == CollapseDots(dotted)
    IN  IF remainder \in {<<>>, <<".">>, <<"-">>} THEN Zero
        ELSE IF IsDecimalString(remainder) THEN DecimalValue(remainder)
        ELSE Zero

\* C16: for every text parse_numeric_value returns what the six steps give:
\* a character that is no digit, space, comma, dot or minus sign, a
\* non-breaking space among them, is dropped and the digits around it are
\* read as one number.
C16_SixStepAlgorithm ==
    (NumberParsed /\ text.kind = "str") =>
        /\ parsed.raised = ""
        /\ FracEq(parsed.value, SixSteps(text.chars))

\* "1", a non-breaking space, "7": the six steps give 17, the code 0.0.
C16_Witness ==
    /\ NumberParsed
    /\ text = Str(<<"1", Nbsp, "7">>)
    /\ FracIsZero(parsed.value)
    /\ FracEq(SixSteps(text.chars), Frac(17, 1))

\* The section boundaries of the specification: a row of one spanning cell,
\* a row that opens with a bold label, a totals row (a blank spanning cell
\* before the sums).
IsBoundaryRow(row) ==
    /\ Len(row.cells) > 0
    /\ \/ Len(row.cells) = 1 /\ row.cells[1].colspan
       \/ row.cells[1].bold # ""
       \/ row.cells[1].colspan /\ Strip(row.cells[1].text) = <<>>

\* The rows of a section after its label row and before the first boundary.
RowsBeforeBoundary(rows, label) ==
    LET start == find_section_by_header(rows, label)
        boundaries == {i \in (start + 1)..Len(rows) : IsBoundaryRow(rows[i])}
        boundary == IF boundaries = {} THEN Len(rows) + 1 ELSE First(boundaries)
    IN  IF start = 0 THEN <<>> ELSE SubSeq(rows, start + 1, boundary - 1)

TicketsBeforeBoundary(rows, label) ==
    {Strip(row.cells[1].text) : row \in Range(RowsBeforeBoundary(rows, label))}

\* C17: every trade of a section's ledger comes from a row between the
\* section's label row and the first boundary row after it: the scan takes no
\* trade from a row at or after a spanning cell, a bold label or a totals row.
C17_NoTradeFromBoundaryOn ==
    pc = "sections_parsed" =>
        /\ \A t \in 1..Len(statement.closed_trades) :
               statement.closed_trades[t]["ticket"]
                   \in TicketsBeforeBoundary(soup, "Closed Transactions:")
        /\ \A t \in 1..Len(statement.open_trades) :
               statement.open_trades[t]["ticket"]
                   \in TicketsBeforeBoundary(soup, "Open Trades:")

\* A closed table of a totals row and a trade row after it: the trade is in
\* the ledger.
C17_Witness ==
    /\ pc = "sections_parsed"
    /\ LET rows == RowsOfSection(soup, "Closed Transactions:")
       IN  /\ Len(rows) = 2
           /\ IsBoundaryRow(rows[1])
           /\ IsTradeRow(rows[2])
           /\ Len(statement.closed_trades) = 1
           /\ statement.closed_trades[1]["ticket"] = Strip(rows[2].cells[1].text)

\* The tickets of the well-formed trade rows of the closed table, from the
\* row after the header row to the row before the first boundary.
ClosedTradeTickets(rows) ==
    LET before == RowsBeforeBoundary(rows, "Closed Transactions:")
    IN  IF before # <<>> /\ before[1].bgcolor = HEADER_ROW_BG_COLOR
        THEN TicketsOfRows(SelectSeq(SubSeq(before, 2, Len(before)), IsTradeRow))
        ELSE <<>>

IsNumericTicket(ticket) ==
    ticket # <<>> /\ \A i \in 1..Len(ticket) : ticket[i] \in Digits

\* C18: a row of the closed table with a wrong number of cells, a ticket that
\* is no number or an unknown type is passed over and the scan goes on: the
\* well-formed trade rows between the header row and the boundary are in the
\* ledger, in the order of the document, whatever rows stand between them,
\* and every ticket of the ledger is a number.
C18_MalformedRowsSkipped ==
    pc = "sections_parsed" =>
        LET required == ClosedTradeTickets(soup)
            ledger == TicketsOfTrades(statement.closed_trades)
            IsRequired(ticket) == \E k \in 1..Len(required) : required[k] = ticket
        IN  /\ statement.raised = ""
            /\ SelectSeq(ledger, IsRequired) = required
            /\ \A t \in 1..Len(ledger) : IsNumericTicket(ledger[t])

\* A trade row after a malformed row of the closed table is in the ledger.
C18_Witness ==
    /\ pc = "sections_parsed"
    /\ LET rows == RowsOfSection(soup, "Closed Transactions:")
       IN  /\ Len(rows) = 2
           /\ ~IsTradeRow(rows[1]) /\ ~IsBoundaryRow(rows[1])
           /\ Len(rows[1].cells) = 14
           /\ IsTradeRow(rows[2])
           /\ TicketsOfTrades(statement.closed_trades) = <<Strip(rows[2].cells[1].text)>>

\* The row after the label row of a section carries the header background.
HeaderFollowsLabel(rows, label) ==
    LET section == find_section_by_header(rows, label)
    IN  /\ section # 0
        /\ section < Len(rows)
        /\ rows[section + 1].bgcolor = HEADER_ROW_BG_COLOR

\* C19: the header row of a trade table is the row right after the label row
\* of its section, or there is none: a row with the header background further
\* down is not taken, so a section whose label row is not followed by a
\* header row has an empty ledger.
C19_HeaderIsNextRow ==
    pc = "sections_parsed" =>
        /\ \A label \in {"Closed Transactions:", "Open Trades:"} :
               LET section == find_section_by_header(soup, label)
               IN  section # 0 =>
                       find_header_row(soup, section) \in {0, section + 1}
        /\ ~HeaderFollowsLabel(soup, "Closed Transactions:") =>
               statement.closed_trades = <<>>
        /\ ~HeaderFollowsLabel(soup, "Open Trades:") => statement.open_trades = <<>>

\* The closed section's label row is followed by a row of two cells and then
\* by the header row: the trade under the late header is in the ledger.
C19_Witness ==
    /\ pc = "sections_parsed"
    /\ find_section_by_header(soup, "Closed Transactions:") # 0
    /\ ~HeaderFollowsLabel(soup, "Closed Transactions:")
    /\ Len(statement.closed_trades) = 1

\* The recognized label of a cell, or "".
LabelOf(cell) == IF cell.bold \in FINANCIAL_LABELS THEN cell.bold ELSE ""

\* The label a value cell j of the row takes: that of the last cell with a
\* recognized label up to j, unless a value cell from that cell on and before
\* j has taken it already; "" when there is none.
PendingLabel(row, j) ==
    LET labels == {i \in 1..j : LabelOf(row.cells[i]) # ""}
    IN  IF labels = {} THEN ""
        ELSE LET i == Last(labels)
             IN  IF \E k \in i..(j - 1) : row.cells[k].class = MSPT_CLASS
                 THEN "" ELSE LabelOf(row.cells[i])

\* The value cells <<row, cell>> of the right-aligned rows that take the label.
ValueCellsOf(rows, label) ==
    UNION {{<<r, c>> : c \in {c \in 1..Len(rows[r].cells) :
                                /\ rows[r].cells[c].class = MSPT_CLASS
                                /\ PendingLabel(rows[r], c) = label}} :
           r \in {r \in 1..Len(rows) : IsRightAligned(rows[r])}}

\* The last of them in the order of the scan.
LastValueCell(cells) ==
    CHOOSE rc \in cells : \A other \in cells :
        other[1] < rc[1] \/ (other[1] = rc[1] /\ other[2] <= rc[2])

\* C20: in the scan of the right-aligned rows a value cell (class mspt) sets
\* the field of the last recognized bold label up to it in its row; a label
\* is taken by one value cell at most, a value cell without a pending label
\* sets nothing, and no label is pending at the start of a row: every field
\* of the summary is the number of the last value cell that takes its label,
\* or the default when no value cell does.
C20_ValueGoesToPendingLabel ==
    (pc = "sections_parsed" /\ statement.raised = "") =>
        \A label \in FINANCIAL_LABELS :
            LET cells == ValueCellsOf(soup, label)
            IN  IF cells = {}
                THEN FracEq(statement.financial_summary[label], FinancialSummary[label])
                ELSE LET rc == LastValueCell(cells)
                     IN  FracEq(statement.financial_summary[label],
                                parse_numeric_value(
                                    Str(safe_get_text(soup[rc[1]].cells[rc[2]]))).value)

\* Rows scanned where a label has two value cells after it: the first one
\* (7) is the balance, the second (8) sets nothing, the equity is 9.
C20_Witness ==
    /\ pc = "sections_parsed"
    /\ statement.raised = ""
    /\ \E i \in 1..Len(soup) :
          /\ IsRightAligned(soup[i])
          /\ \E j \in 1..Len(soup[i].cells) :
                /\ soup[i].cells[j].class = MSPT_CLASS
                /\ PendingLabel(soup[i], j) = "Balance:"
                /\ j < Len(soup[i].cells)
                /\ soup[i].cells[j + 1].class = MSPT_CLASS
                /\ PendingLabel(soup[i], j + 1) = ""
    /\ FracEq(statement.financial_summary["Balance:"], Frac(7, 1))
    /\ FracEq(statement.financial_summary["Equity:"], Frac(9, 1))

\* C21: a maximal or relative drawdown cell that holds an amount and a
\* percentage gives the operand with the "%" as the percentage and the other
\* as the amount, whichever comes first.
C21_PercentOperandIsPercentage ==
    \A cents \in DrawdownAmounts, percent \in DrawdownPercents :
        text \in {Str(AmountThenPercent(cents, percent)),
                  Str(PercentThenAmount(cents, percent))} =>
            /\ pc = "parse_maximal_drawdown" =>
                  /\ FracEq(parsed.maximal_drawdown_amount, Frac(cents, 100))
                  /\ FracEq(parsed.maximal_drawdown_percentage, Frac(percent, 100))
            /\ pc = "parse_relative_drawdown" =>
                  /\ FracEq(parsed.relative_drawdown_amount, Frac(cents, 100))
                  /\ FracEq(parsed.relative_drawdown_percentage, Frac(percent, 100))

\* "0.02% (40.00)" went through the maximal drawdown parser.
C21_Witness ==
    /\ pc = "parse_maximal_drawdown"
    /\ text = Str(PercentThenAmount(4000, 2))
    /\ parsed.raised = ""

\* max(0, w - (1 - w) / RR) * 100 for the win rate w * 100 and the ratio RR,
\* and 0 for RR <= 0 or a win rate of 0 or 100; for an infinite RR the
\* quotient (1 - w) / RR is 0.
KellyFormula(win_rate, risk_reward_ratio) ==
    IF ~FracPos(risk_reward_ratio) \/ win_rate.n <= 0 \/ win_rate.n >= 100 * win_rate.d
    THEN Zero
    ELSE IF IsInf(risk_reward_ratio) THEN win_rate
    ELSE LET kelly == Frac(win_rate.n * risk_reward_ratio.n
                              - (100 * win_rate.d - win_rate.n) * risk_reward_ratio.d,
                           win_rate.d * risk_reward_ratio.n)
         IN  IF kelly.n > 0 THEN kelly ELSE Zero

KellyCalculated ==
    pc \in {"process_file", "basic_calculator", "basic_calculator_again",
            "service_metrics", "ultra_fast"}

\* C22: the Kelly percentage every calculator reports is
\* max(0, w - (1 - w) / RR) * 100 of the win rate and the risk-reward ratio it
\* reports, 0 when RR <= 0 or the win rate is 0 or 100, and never negative.
C22_KellyFormula ==
    KellyCalculated =>
        /\ FracEq(calculated_metrics.kelly_percentage,
                  KellyFormula(calculated_metrics.win_rate,
                               calculated_metrics.risk_reward_ratio))
        /\ calculated_metrics.kelly_percentage.n >= 0
        /\ calculated_metrics.kelly_percentage.d > 0

\* The service has calculated a ledger of winners and breakeven trades: a
\* win rate strictly between 0 and 100 and no loss to divide by.
C22_Witness ==
    /\ pc = "service_metrics"
    /\ calculated_metrics.win_rate.n > 0
    /\ calculated_metrics.win_rate.n < 100 * calculated_metrics.win_rate.d
    /\ IsInf(calculated_metrics.risk_reward_ratio)
    /\ FracIsZero(calculated_metrics.kelly_percentage)

RatingLabels == <<"FAIR", "GOOD", "VERY GOOD", "EXCELLENT">>
RatingThresholds == <<40, 50, 60, 70>>

\* C23: the composite rating is the label of the highest of the thresholds
\* 70, 60, 50, 40 that the performance score and the risk-adjusted score both
\* reach, and NEEDS IMPROVEMENT when they both reach none; a recovery factor
\* of 0 or less gives NEEDS IMPROVEMENT.
C23_RatingNeedsBothScores ==
    pc = "comprehensive_rating" =>
        LET reached == {k \in 1..4 : /\ Reaches(parsed.score, RatingThresholds[k])
                                     /\ Reaches(parsed.recovery, RatingThresholds[k])}
        IN  /\ parsed.rating =
                  (IF reached = {} THEN "NEEDS IMPROVEMENT"
                   ELSE RatingLabels[CHOOSE k \in reached : \A j \in reached : j <= k])
            /\ FracEq(parsed.recovery,
                      IF FracPos(calculated_metrics.recovery_factor)
                      THEN FracMin(Times(calculated_metrics.recovery_factor, 10), Points(100))
                      ELSE Zero)
            /\ ~FracPos(calculated_metrics.recovery_factor) =>
                  parsed.rating = "NEEDS IMPROVEMENT"

\* A rating held down by the recovery factor: the performance score reaches
\* 70, the risk-adjusted score only 50, and the label is GOOD.
C23_Witness ==
    /\ pc = "comprehensive_rating"
    /\ Reaches(parsed.score, 70)
    /\ Reaches(parsed.recovery, 50) /\ ~Reaches(parsed.recovery, 60)
    /\ parsed.rating = "GOOD"

\* C24: the performance score is between 0 and 100 for all the metrics the
\* calculators produce, from CalculatedMetrics.get_performance_score and from
\* RatingCalculator._calculate_performance_score alike.
C24_ScoreBetween0And100 ==
    pc \in {"comprehensive_rating", "rating_calculator"} =>
        /\ ~FracLess(parsed.score, Points(0))
        /\ ~FracLess(Points(100), parsed.score)

\* The score of a ledger of losing trades: a negative expectancy.
C24_Witness ==
    /\ pc = "comprehensive_rating"
    /\ calculated_metrics.expectancy.n < 0
    /\ parsed.raised = ""

\* The states whose R records went through RMultipleData.calculate_r_multiple
\* or the service's copy of it.
RecordsCalculated ==
    pc \in {"process_file", "process_file_again", "r_multiple_calculator",
            "r_multiple_calculator_again", "calculator_service"}

TakeProfitOnProfitSide(r) ==
    /\ r.take_profit > 0
    /\ r.type = "buy" => r.take_profit > r.entry_price
    /\ r.type = "sell" => r.take_profit < r.entry_price

\* C25: the risk:reward ratio of a valid R record is potential_reward /
\* initial_risk when a take-profit is set on the profit side of the entry
\* (above it for a buy, below it for a sell); it is 0 otherwise and never
\* negative.
C25_RiskRewardOnlyOnProfitSide ==
    RecordsCalculated =>
        \A i \in 1..Len(r_multiple_data) :
            LET r == r_multiple_data[i]
            IN  r.is_valid_r_trade =>
                    /\ r.risk_reward_ratio.n >= 0
                    /\ IF TakeProfitOnProfitSide(r)
                       THEN FracEq(r.risk_reward_ratio,
                                   Frac(Abs(r.take_profit - r.entry_price), r.initial_risk))
                       ELSE FracIsZero(r.risk_reward_ratio)

\* A valid buy record whose take-profit lies below the entry, after the
\* r_multiple calculator of the factory ran.
C25_Witness ==
    /\ pc = "r_multiple_calculator"
    /\ \E i \in 1..Len(r_multiple_data) :
          /\ r_multiple_data[i].is_valid_r_trade
          /\ r_multiple_data[i].type = "buy"
          /\ r_multiple_data[i].take_profit > 0
          /\ r_multiple_data[i].take_profit < r_multiple_data[i].entry_price

\* The states whose statistics calculators.RMultipleCalculator left.
AnalyzerStatistics == pc \in {"process_file", "process_file_again"}

LosingRValues == SelectSeq(RValues(r_multiple_data), IsNegative)

\* C26: for a non-empty list of valid R records with no losing R the
\* R-Sortino ratio is +infinity, whatever the number of records; otherwise it
\* is the mean R over the downside deviation, the root of the mean square of
\* the losing R values.
C26_SortinoOfValidRecords ==
    (AnalyzerStatistics /\ r_multiple_data # <<>>) =>
        IF LosingRValues = <<>>
        THEN r_multiple_statistics.r_sortino_ratio.inf
        ELSE /\ ~r_multiple_statistics.r_sortino_ratio.inf
             /\ FracEq(r_multiple_statistics.r_sortino_ratio.mean,
                       Over(FracSum(RValues(r_multiple_data)), Len(r_multiple_data)))
             /\ FracEq(r_multiple_statistics.r_sortino_ratio.downside_variance,
                       Over(FracSum(SquaresAround(LosingRValues, Zero)), Len(LosingRValues)))

\* One valid record, a winner, analysed by the processor.
C26_Witness ==
    /\ pc = "process_file"
    /\ Len(r_multiple_data) = 1
    /\ r_multiple_data[1].r_multiple.n > 0
    /\ r_multiple_statistics.total_valid_r_trades = 1

\* The lengths of the runs of consecutive winners (R > 0) and of consecutive
\* losers (R < 0) among the R values, and the longest of a set of lengths.
WinRunLengths(r_values) ==
    {j - i + 1 : <<i, j>> \in {w \in (1..Len(r_values)) \X (1..Len(r_values)) :
                                  /\ w[1] <= w[2]
                                  /\ \A k \in w[1]..w[2] : r_values[k].n > 0}}
LossRunLengths(r_values) ==
    {j - i + 1 : <<i, j>> \in {w \in (1..Len(r_values)) \X (1..Len(r_values)) :
                                  /\ w[1] <= w[2]
                                  /\ \A k \in w[1]..w[2] : r_values[k].n < 0}}
Longest(lengths) == IF lengths = {} THEN 0
                    ELSE CHOOSE n \in lengths : \A m \in lengths : m <= n

\* C27: max_consecutive_r_wins is the length of the longest run of consecutive
\* R > 0 of the valid records in order, max_consecutive_r_losses that of the
\* longest run of consecutive R < 0; a breakeven R ends both runs and a run
\* open at the end of the list counts.
C27_LongestStreaks ==
    AnalyzerStatistics =>
        /\ r_multiple_statistics.max_consecutive_r_wins =
               Longest(WinRunLengths(RValues(r_multiple_data)))
        /\ r_multiple_statistics.max_consecutive_r_losses =
               Longest(LossRunLengths(RValues(r_multiple_data)))

\* Winner, breakeven, winner: two win streaks of one trade each, the second
\* open at the end.
C27_Witness ==
    /\ pc = "process_file"
    /\ Len(r_multiple_data) = 3
    /\ r_multiple_data[1].r_multiple.n > 0
    /\ r_multiple_data[2].r_multiple.n = 0
    /\ r_multiple_data[3].r_multiple.n > 0
    /\ r_multiple_statistics.max_consecutive_r_wins = 1

\* The cumulative R after the first k valid records; 0 before the first.
CumulativeR(k) == FracSum(SubSeq(RValues(r_multiple_data), 1, k))

\* The declines of the cumulative R from an earlier point to a later one.
Declines ==
    {FracSub(CumulativeR(i), CumulativeR(j)) :
        <<i, j>> \in {w \in (0..Len(r_multiple_data)) \X (0..Len(r_multiple_data)) :
                         w[1] <= w[2]}}

\* C28: max_r_drawdown is the largest decline of the running cumulative R
\* from a peak (0 before the first trade) to a later trough, it is never
\* negative, and r_recovery_factor is the final cumulative R over
\* max_r_drawdown when that is > 0 and 0 otherwise.
C28_DrawdownIsPeakToTrough ==
    ((AnalyzerStatistics \/ pc = "ultra_fast") /\ r_multiple_data # <<>>) =>
        /\ r_multiple_statistics.max_r_drawdown.n >= 0
        /\ \E d \in Declines : FracEq(r_multiple_statistics.max_r_drawdown, d)
        /\ \A d \in Declines : ~FracLess(r_multiple_statistics.max_r_drawdown, d)
        /\ IF r_multiple_statistics.max_r_drawdown.n > 0
           THEN FracEq(FracMul(r_multiple_statistics.r_recovery_factor,
                               r_multiple_statistics.max_r_drawdown),
                       CumulativeR(Len(r_multiple_data)))
           ELSE FracIsZero(r_multiple_statistics.r_recovery_factor)

\* The ultra-fast calculator on a ledger with a losing valid record.
C28_Witness ==
    /\ pc = "ultra_fast"
    /\ \E i \in 1..Len(r_multiple_data) : r_multiple_data[i].r_multiple.n < 0
    /\ r_multiple_statistics.total_valid_r_trades = Len(r_multiple_data)

\* C29: the R-Multiple rating adds 40 / 25 / 10 points for an R expectancy
\* above 0.5 / 0.2 / 0, 30 / 20 / 10 for an R win rate of at least 60 / 50 /
\* 40, 20 for an average losing R above -1.0 or 10 for one above -2.0, and 10
\* for an R volatility below 2.0, and labels the total on the scale of the
\* composite rating: >= 70 EXCELLENT, >= 60 VERY GOOD, >= 50 GOOD, >= 40 FAIR,
\* else NEEDS IMPROVEMENT.
C29_RRatingOnCompositeScale ==
    pc = "r_performance_rating" =>
        /\ parsed.score =
               (IF FracLess(Frac(1, 2), r_multiple_statistics.r_expectancy) THEN 40
                ELSE IF FracLess(Frac(1, 5), r_multiple_statistics.r_expectancy) THEN 25
                ELSE IF r_multiple_statistics.r_expectancy.n > 0 THEN 10 ELSE 0)
               + (IF Reaches(r_multiple_statistics.r_win_rate, 60) THEN 30
                  ELSE IF Reaches(r_multiple_statistics.r_win_rate, 50) THEN 20
                  ELSE IF Reaches(r_multiple_statistics.r_win_rate, 40) THEN 10 ELSE 0)
               + (IF FracLess(Points(-1), r_multiple_statistics.average_losing_r) THEN 20
                  ELSE IF FracLess(Points(-2), r_multiple_statistics.average_losing_r) THEN 10
                  ELSE 0)
               + (IF FracLess(r_multiple_statistics.r_volatility.radicand, Points(4))
                  THEN 10 ELSE 0)
        /\ parsed.rating = RLabelOfCompositeScale(parsed.score)

\* Statistics worth 70 points, rated by get_r_performance_rating.
C29_Witness ==
    /\ pc = "r_performance_rating"
    /\ parsed.score = 70
    /\ r_multiple_statistics.total_valid_r_trades > 0

\* C30: the statistics of the analyzer always pass its validator: for every
\* list of valid R records validate_statistics_calculation reports no issue
\* on the trade count, the win rate, the average R, the distribution total or
\* the expectancy.
C30_StatisticsPassSelfCheck ==
    AnalyzerStatistics =>
        validate_statistics_calculation(r_multiple_data, r_multiple_statistics) = {}

\* Statistics of three records, a winner, a loser and a breakeven, with an
\* expectancy other than 0.
C30_Witness ==
    /\ pc = "process_file"
    /\ r_multiple_statistics.total_valid_r_trades = 3
    /\ \E i \in 1..3 : r_multiple_data[i].r_multiple.n > 0
    /\ \E i \in 1..3 : r_multiple_data[i].r_multiple.n < 0
    /\ \E i \in 1..3 : r_multiple_data[i].r_multiple.n = 0
    /\ r_multiple_statistics.r_expectancy.n # 0

====
